---- MODULE Spec2Model ----
(***************************************************************************)
(* Provenance integrity engine of medivarify/qr_managements: the agent     *)
(* and distributor portals' scan handling, district resolution, diversion detection and    *)
(* tamper-proof log (components/AgentPortal.tsx), and the Arduino Cloud    *)
(* batch synchronisation (services/arduinoCloud).                          *)
(***************************************************************************)
EXTENDS Integers, Sequences, FiniteSets, TLC

\* ------------------------------------------------------------------ bounds
\* Largest number of scans the agent portal processes in a behaviour.
MaxScans == 2
\* Largest number of background location samples in a behaviour.
MaxTracking == 1

\* ------------------------------------------------- optional values, helpers
\* null / undefined is the empty sequence, a present value v is <<v>>.
None == <<>>
Some(v) == <<v>>

\* obj[key] of a JavaScript object: "" (falsy) stands for undefined.
Get(obj, key) == IF key \in DOMAIN obj THEN obj[key] ELSE ""

Min(a, b) == IF a <= b THEN a ELSE b

\* ------------------------------------------------------------- region data
\* AgentPortal.tsx bangladeshDistricts; lat/lng in 1e-4 degree, radius in km.
bangladeshDistricts ==
  <<
     [name |-> "Dhaka", lat |-> 238103, lng |-> 904125, radius |-> 50],
     [name |-> "Chittagong", lat |-> 223569, lng |-> 917832, radius |-> 40],
     [name |-> "Sylhet", lat |-> 248949, lng |-> 918687, radius |-> 35],
     [name |-> "Rajshahi", lat |-> 243745, lng |-> 886042, radius |-> 30],
     [name |-> "Khulna", lat |-> 228456, lng |-> 895403, radius |-> 35],
     [name |-> "Barisal", lat |-> 227010, lng |-> 903535, radius |-> 25],
     [name |-> "Rangpur", lat |-> 257439, lng |-> 892752, radius |-> 30],
     [name |-> "Mymensingh", lat |-> 247471, lng |-> 904203, radius |-> 25],
     [name |-> "Comilla", lat |-> 234607, lng |-> 911809, radius |-> 20],
     [name |-> "Narayanganj", lat |-> 236238, lng |-> 904990, radius |-> 15],
     [name |-> "Gazipur", lat |-> 239999, lng |-> 904203, radius |-> 20],
     [name |-> "Tangail", lat |-> 242513, lng |-> 899167, radius |-> 25],
     [name |-> "Jessore", lat |-> 231697, lng |-> 892072, radius |-> 25],
     [name |-> "Bogra", lat |-> 248465, lng |-> 893776, radius |-> 20],
     [name |-> "Dinajpur", lat |-> 256217, lng |-> 886354, radius |-> 20],
     [name |-> "Pabna", lat |-> 240064, lng |-> 892372, radius |-> 18],
     [name |-> "Kushtia", lat |-> 239013, lng |-> 891206, radius |-> 18],
     [name |-> "Faridpur", lat |-> 236070, lng |-> 898429, radius |-> 20],
     [name |-> "Brahmanbaria", lat |-> 239571, lng |-> 911115, radius |-> 15],
     [name |-> "Noakhali", lat |-> 228696, lng |-> 910995, radius |-> 20]
  >>

\* The positions the device's GPS reports in this model (1e-4 degree): the
\* centre of Dhaka, the centre of Narayanganj (inside Dhaka's radius too) and a
\* point in the Bay of Bengal (inside no district).
GpsPoints ==
  { [latitude |-> 238103, longitude |-> 904125],
    [latitude |-> 236238, longitude |-> 904990],
    [latitude |-> 210000, longitude |-> 900000] }

\* calculateDistance evaluated on GpsPoints x district centres: rows
\* <<lat1, lon1, lat2, lon2, metres>>, the haversine formula of the source
\* (R = 6371 km) rounded to the metre.
HaversineRows ==
  {
     <<238103, 904125, 238103, 904125, 0>>, <<238103, 904125, 223569, 917832, 213952>>,
     <<238103, 904125, 248949, 918687, 190537>>, <<238103, 904125, 243745, 886042, 193980>>,
     <<238103, 904125, 228456, 895403, 139418>>, <<238103, 904125, 227010, 903535, 123496>>,
     <<238103, 904125, 257439, 892752, 243740>>, <<238103, 904125, 247471, 904203, 104170>>,
     <<238103, 904125, 234607, 911809, 87396>>, <<238103, 904125, 236238, 904990, 22530>>,
     <<238103, 904125, 239999, 904203, 21097>>, <<238103, 904125, 242513, 899167, 70285>>,
     <<238103, 904125, 231697, 892072, 142064>>, <<238103, 904125, 248465, 893776, 155789>>,
     <<238103, 904125, 256217, 886354, 269788>>, <<238103, 904125, 240064, 892372, 121447>>,
     <<238103, 904125, 239013, 891206, 131769>>, <<238103, 904125, 236070, 898429, 62241>>,
     <<238103, 904125, 239571, 911115, 72920>>, <<238103, 904125, 228696, 910995, 125940>>,
     <<236238, 904990, 238103, 904125, 22530>>, <<236238, 904990, 223569, 917832, 192676>>,
     <<236238, 904990, 248949, 918687, 198132>>, <<236238, 904990, 243745, 886042, 209796>>,
     <<236238, 904990, 228456, 895403, 130702>>, <<236238, 904990, 227010, 903535, 103683>>,
     <<236238, 904990, 257439, 892752, 266197>>, <<236238, 904990, 247471, 904203, 125160>>,
     <<236238, 904990, 234607, 911809, 71839>>, <<236238, 904990, 236238, 904990, 0>>,
     <<236238, 904990, 239999, 904203, 42580>>, <<236238, 904990, 242513, 899167, 91492>>,
     <<236238, 904990, 231697, 892072, 141169>>, <<236238, 904990, 248465, 893776, 177236>>,
     <<236238, 904990, 256217, 886354, 291263>>, <<236238, 904990, 240064, 892372, 135225>>,
     <<236238, 904990, 239013, 891206, 143630>>, <<236238, 904990, 236070, 898429, 66871>>,
     <<236238, 904990, 239571, 911115, 72507>>, <<236238, 904990, 228696, 910995, 103908>>,
     <<210000, 900000, 238103, 904125, 315354>>, <<210000, 900000, 223569, 917832, 238146>>,
     <<210000, 900000, 248949, 918687, 473456>>, <<210000, 900000, 243745, 886042, 401611>>,
     <<210000, 900000, 228456, 895403, 210628>>, <<210000, 900000, 227010, 903535, 192629>>,
     <<210000, 900000, 257439, 892752, 532656>>, <<210000, 900000, 247471, 904203, 418876>>,
     <<210000, 900000, 234607, 911809, 299395>>, <<210000, 900000, 236238, 904990, 296233>>,
     <<210000, 900000, 239999, 904203, 336356>>, <<210000, 900000, 242513, 899167, 361629>>,
     <<210000, 900000, 231697, 892072, 254711>>, <<210000, 900000, 248465, 893776, 432432>>,
     <<210000, 900000, 256217, 886354, 532452>>, <<210000, 900000, 240064, 892372, 343355>>,
     <<210000, 900000, 239013, 891206, 335025>>, <<210000, 900000, 236070, 898429, 290335>>,
     <<210000, 900000, 239571, 911115, 348076>>, <<210000, 900000, 228696, 910995, 236808>>
  }

HaversineTable ==
  [k \in {<<r[1], r[2], r[3], r[4]>> : r \in HaversineRows} |->
     (CHOOSE r \in HaversineRows : <<r[1], r[2], r[3], r[4]>> = k)[5]]

calculateDistance(lat1, lon1, lat2, lon2) == HaversineTable[<<lat1, lon1, lat2, lon2>>]

\* ---------------------------------------------------------------- variables
VARIABLES
  now,             \* Date.now() / new Date(), in clock ticks
  devicePosition,  \* where the device is: what navigator.geolocation reports
  component,       \* the portal of this behaviour: "agent" or "distributor"
  activeTab,       \* state activeTab of the portal
  currentLocation, \* state currentLocation (None = null)
  geoPending,      \* a getCurrentPosition request of getCurrentLocation is outstanding
  isScanning,      \* state isScanning
  scannerRef,      \* scannerRef.current with the render closure it was given
  scanCount,       \* scans handed to handleScanSuccess so far
  transactions,    \* state transactions, newest first
  storage,         \* localStorage 'agent_transactions' / 'distribution_transactions'
  alerts,          \* state alerts, newest first
  scanResult,      \* state scanResult
  trackingLog,     \* entries the agent's 30 s tracking loop created (console output)
  scanHistory      \* history: the scans that gave a transaction, oldest first

portalVars ==
  <<now, devicePosition, component, activeTab, currentLocation, geoPending, isScanning,
    scannerRef, scanCount, transactions, storage, alerts, scanResult,
    trackingLog, scanHistory>>

\* District resolution over a registry of its own (AgentPortal.tsx and
\* Scanner.tsx detectDistrict):
VARIABLES
  registry,        \* the districts array: <<[name, radius (km)]>>
  pointDistances,  \* calculateDistance from the GPS point to each centre, metres
  detected         \* what detectDistrict returned for the point (None = no call yet)

detectVars == <<registry, pointDistances, detected>>

\* ArduinoCloudService and one batchSync call (services/arduinoCloud):
VARIABLES
  clock,           \* Date.now() of the service, in seconds
  accessToken,     \* this.accessToken (None = null)
  tokenExpiry,     \* this.tokenExpiry (None = null)
  qrCodes,         \* the argument of batchSync: the record ids, in order
  pc,              \* batchSync: "idle", "batch" (awaiting allSettled),
                   \* "delay" (awaiting the timer), "returned", "rejected"
  loopIndex,       \* the loop variable i of batchSync
  callbacks,       \* per record index: promise of its batch.map callback
  inFlight,        \* fetch requests without a response: [record, kind]
  results,         \* the Map results: record id -> ArduinoSyncStatus
  batches,         \* history: the slices processed, as <<first, last>> indices
  delays,          \* history: inter-batch timers that fired
  syncCalls,       \* history: per record index, calls of syncQRCodeData
  publishes,       \* history: per record index, sync fetches sent
  settledBy,       \* history: per record index, the step that settled its sync
  authCalls,       \* history: calls of the public authenticate() by other callers
  faults           \* history: failing responses so far

syncVars ==
  <<clock, accessToken, tokenExpiry, qrCodes, pc, loopIndex, callbacks, inFlight,
    results, batches, delays, syncCalls, publishes, settledBy, authCalls,
    faults>>

\* QRCodeParser.parseQRCode: its inputs and its result
VARIABLES
  scanned,         \* the raw string handed to parseQRCode
  parseDay,        \* new Date() at the call, in days
  parsedRecord,    \* the record the last call returned (None before the first)
  previousRecord   \* history: the record the call before the last returned

parseVars == <<scanned, parseDay, parsedRecord, previousRecord>>

\* The camera: the mounted portal, its QRScanner objects and the video element
VARIABLES
  mounted, scannerSource, scannerObjects, currentScanner, scanningShown, videoSource
cameraVars ==
  <<mounted, scannerSource, scannerObjects, currentScanner, scanningShown, videoSource>>

\* ------------------------------------------------------ district resolution
\* detectLoop with the test distance <= minDistance: of equally close
\* districts the last one wins. C7 tells the two apart.
RECURSIVE detectLoopLastWins(_, _, _, _, _)
detectLoopLastWins(districts, distances, i, closestDistrict, minDistance) ==
  IF i > Len(districts) THEN closestDistrict
  ELSE IF /\ (minDistance = None \/ distances[i] <= minDistance[1])
          /\ distances[i] <= districts[i].radius * 1000
       THEN detectLoopLastWins(districts, distances, i + 1, districts[i].name,
                               Some(distances[i]))
       ELSE detectLoopLastWins(districts, distances, i + 1, closestDistrict,
                               minDistance)

\* The forEach body of detectDistrict from district i on; minDistance None is
\* Infinity. distances[i] is calculateDistance(gps, districts[i]) in metres,
\* the radius is in km.
RECURSIVE detectLoop(_, _, _, _, _)
detectLoop(districts, distances, i, closestDistrict, minDistance) ==
  IF i > Len(districts) THEN closestDistrict
  ELSE IF /\ (minDistance = None \/ distances[i] < minDistance[1])
          /\ distances[i] <= districts[i].radius * 1000
       THEN detectLoop(districts, distances, i + 1, districts[i].name,
                       Some(distances[i]))
       ELSE detectLoop(districts, distances, i + 1, closestDistrict, minDistance)

detectDistrictIn(districts, distances) ==
  detectLoop(districts, distances, 1, "Unknown", None)

districtDistances(gps) ==
  [i \in 1..Len(bangladeshDistricts) |->
     calculateDistance(gps.latitude, gps.longitude,
                       bangladeshDistricts[i].lat, bangladeshDistricts[i].lng)]

\* detectDistrict at each position the device can report, computed once
DistrictAt ==
  [gps \in GpsPoints |-> detectDistrictIn(bangladeshDistricts, districtDistances(gps))]

detectDistrict(gps) == DistrictAt[gps]

\* ------------------------------------------------------- JavaScript values
\* A value JSON.parse gives, or a value the parser builds: a record whose
\* one field names the type. Objects hold a function from keys to values, arrays a
\* sequence, strings a string, numbers an integer; a number parseFloat read
\* has the type "float" and holds its decimal digits. The record is
\* [type |-> what it holds].
Digits == {"0", "1", "2", "3", "4", "5", "6", "7", "8", "9"}

Undefined == [undefined |-> TRUE]
JNull == [null |-> TRUE]
NaN == [nan |-> TRUE]
JBool(b) == [boolean |-> b]
JNum(n) == [number |-> n]
JFloat(digits) == [float |-> digits]
JStr(s) == [string |-> s]
JArr(items) == [array |-> items]
JObj(fields) == [object |-> fields]

\* typeof value, with "array", "null" and "nan" told apart
TypeOf(value) == CHOOSE type \in DOMAIN value : TRUE

\* What the value holds
ValueOf(value) == value[TypeOf(value)]

\* The empty object {} : the function with no key.
NoFields == [k \in {} |-> Undefined]

\* if (value) of JavaScript
Truthy(value) ==
  CASE TypeOf(value) \in {"undefined", "null", "nan"} -> FALSE
    [] TypeOf(value) = "boolean" -> ValueOf(value)
    [] TypeOf(value) = "number" -> ValueOf(value) /= 0
    [] TypeOf(value) = "string" -> ValueOf(value) /= ""
    [] TypeOf(value) = "float" -> \E i \in 1..Len(ValueOf(value)) : ValueOf(value)[i] \in Digits \ {"0"}
    [] OTHER -> TRUE

\* typeof value === 'object' && value !== null
IsObject(value) == TypeOf(value) \in {"object", "array"}

\* value.key for a value that is neither null nor undefined: undefined
\* unless value is an object with that key.
Prop(value, key) ==
  IF TypeOf(value) = "object" /\ key \in DOMAIN ValueOf(value) THEN ValueOf(value)[key]
  ELSE Undefined

\* a || b on values
OrValue(a, b) == IF Truthy(a) THEN a ELSE b

\* value?.key || '' for string fields: "" unless the field is a string.
PropString(value, key) ==
  IF TypeOf(Prop(value, key)) = "string" THEN ValueOf(Prop(value, key)) ELSE ""

\* a || b of JavaScript on strings
OrElse(a, b) == IF a /= "" THEN a ELSE b

\* Object.keys(value)
ObjectKeys(value) ==
  IF TypeOf(value) \in {"object", "array"} THEN DOMAIN ValueOf(value) ELSE {}

\* ------------------------------------------------------------- raw strings
\* The text of a scanned string is a sequence of characters.
LowerLetters ==
  {"a", "b", "c", "d", "e", "f", "g", "h", "i", "j", "k", "l", "m", "n", "o",
   "p", "q", "r", "s", "t", "u", "v", "w", "x", "y", "z"}
UpperLetters ==
  {"A", "B", "C", "D", "E", "F", "G", "H", "I", "J", "K", "L", "M", "N", "O",
   "P", "Q", "R", "S", "T", "U", "V", "W", "X", "Y", "Z"}
\* \s and \w of the regular expressions, over the characters used
Whitespace == {" ", "\n"}
WordChars == Digits \cup LowerLetters \cup UpperLetters \cup {"_"}

\* String.prototype.toLowerCase on one character
LowerOf ==
  [c \in UpperLetters |->
     CASE c = "A" -> "a" [] c = "B" -> "b" [] c = "C" -> "c" [] c = "D" -> "d"
       [] c = "E" -> "e" [] c = "F" -> "f" [] c = "G" -> "g" [] c = "H" -> "h"
       [] c = "I" -> "i" [] c = "J" -> "j" [] c = "K" -> "k" [] c = "L" -> "l"
       [] c = "M" -> "m" [] c = "N" -> "n" [] c = "O" -> "o" [] c = "P" -> "p"
       [] c = "Q" -> "q" [] c = "R" -> "r" [] c = "S" -> "s" [] c = "T" -> "t"
       [] c = "U" -> "u" [] c = "V" -> "v" [] c = "W" -> "w" [] c = "X" -> "x"
       [] c = "Y" -> "y" [] OTHER -> "z"]

toLowerCase(chars) ==
  [i \in 1..Len(chars) |->
     IF chars[i] \in UpperLetters THEN LowerOf[chars[i]] ELSE chars[i]]

\* The string of a sequence of characters
RECURSIVE Join(_)
Join(chars) == IF chars = <<>> THEN "" ELSE Head(chars) \o Join(Tail(chars))

\* data.substring(from) with from counted from 0
substringFrom(chars, from) == SubSeq(chars, from + 1, Len(chars))

\* data.startsWith(prefix)
startsWith(chars, prefix) ==
  Len(chars) >= Len(prefix) /\ SubSeq(chars, 1, Len(prefix)) = prefix

\* /^prefix/i.test(data) for a literal prefix given in lower case
startsWithIgnoreCase(chars, prefix) == startsWith(toLowerCase(chars), prefix)

\* The positions at which the literal occurs in chars
Occurrences(chars, literal) ==
  {i \in 1..(Len(chars) - Len(literal) + 1) :
     SubSeq(chars, i, i + Len(literal) - 1) = literal}

\* data.split(separator): the pieces between the occurrences of a one
\* character separator
RECURSIVE split(_, _)
split(chars, separator) ==
  IF Occurrences(chars, <<separator>>) = {} THEN <<chars>>
  ELSE LET i == CHOOSE p \in Occurrences(chars, <<separator>>) :
                  \A q \in Occurrences(chars, <<separator>>) : p <= q
       IN <<SubSeq(chars, 1, i - 1)>>
            \o split(SubSeq(chars, i + 1, Len(chars)), separator)

\* Every character of chars[from..to] is in the class
AllIn(chars, from, to, class) == \A i \in from..to : chars[i] \in class
NoneIn(chars, from, to, class) == \A i \in from..to : chars[i] \notin class

\* /^https?:\/\//i
matchesUrl(chars) ==
  \/ startsWithIgnoreCase(chars, <<"h", "t", "t", "p", ":", "/", "/">>)
  \/ startsWithIgnoreCase(chars, <<"h", "t", "t", "p", "s", ":", "/", "/">>)

\* /^[^\s@]+@[^\s@]+\.[^\s@]+$/
matchesBareEmail(chars) ==
  \E i, j \in 1..Len(chars) :
    /\ 1 < i /\ i + 1 < j /\ j < Len(chars)
    /\ chars[i] = "@"
    /\ chars[j] = "."
    /\ NoneIn(chars, 1, Len(chars), Whitespace)
    /\ NoneIn(chars, 1, i - 1, {"@"})
    /\ NoneIn(chars, i + 1, Len(chars), {"@"})

\* /^mailto:/i
matchesMailto(chars) ==
  startsWithIgnoreCase(chars, <<"m", "a", "i", "l", "t", "o", ":">>)

\* /^tel:/i
matchesTel(chars) == startsWithIgnoreCase(chars, <<"t", "e", "l", ":">>)

\* /^\+?[\d\s\-\(\)]+$/
matchesPhoneDigits(chars) ==
  LET class == Digits \cup Whitespace \cup {"-", "(", ")"}
      start == IF chars /= <<>> /\ chars[1] = "+" THEN 2 ELSE 1
  IN start <= Len(chars) /\ AllIn(chars, start, Len(chars), class)

\* /^sms:/i, /^WIFI:/i, /^BEGIN:VCARD/i, /^BEGIN:VEVENT/i, /^geo:/i
matchesSms(chars) == startsWithIgnoreCase(chars, <<"s", "m", "s", ":">>)
matchesWifi(chars) == startsWithIgnoreCase(chars, <<"w", "i", "f", "i", ":">>)
matchesVCard(chars) ==
  startsWithIgnoreCase(chars, <<"b", "e", "g", "i", "n", ":", "v", "c", "a", "r", "d">>)
matchesVEvent(chars) ==
  startsWithIgnoreCase(chars, <<"b", "e", "g", "i", "n", ":", "v", "e", "v", "e", "n", "t">>)
matchesGeo(chars) == startsWithIgnoreCase(chars, <<"g", "e", "o", ":">>)

\* /<\?xml|<\w+.*?>/ : "<?xml" anywhere, or "<", word characters, then any
\* characters but line ends up to a ">"
matchesXml(chars) ==
  \/ Occurrences(chars, <<"<", "?", "x", "m", "l">>) /= {}
  \/ \E i, j \in 1..Len(chars) :
       /\ i + 1 < j
       /\ chars[i] = "<"
       /\ chars[i + 1] \in WordChars
       /\ chars[j] = ">"
       /\ NoneIn(chars, i + 2, j - 1, {"\n"})

\* ------------------------------------------------------- percent decoding
\* The value of a hexadecimal digit
HexValue ==
  "0" :> 0 @@ "1" :> 1 @@ "2" :> 2 @@ "3" :> 3 @@ "4" :> 4 @@ "5" :> 5 @@ "6" :> 6 @@ "7" :> 7 @@ "8" :> 8 @@ "9" :> 9
  @@ "a" :> 10 @@ "b" :> 11 @@ "c" :> 12 @@ "d" :> 13 @@ "e" :> 14 @@ "f" :> 15
  @@ "A" :> 10 @@ "B" :> 11 @@ "C" :> 12 @@ "D" :> 13 @@ "E" :> 14 @@ "F" :> 15

\* The printable ASCII character of a byte 0x20..0x7E (the grave accent,
\* which a string of this language cannot hold, is left out)
AsciiOf ==
  32 :> " " @@ 33 :> "!" @@ 34 :> "\"" @@ 35 :> "#" @@ 36 :> "$" @@
  37 :> "%" @@ 38 :> "&" @@ 39 :> "'" @@ 40 :> "(" @@ 41 :> ")" @@
  42 :> "*" @@ 43 :> "+" @@ 44 :> "," @@ 45 :> "-" @@ 46 :> "." @@
  47 :> "/" @@ 48 :> "0" @@ 49 :> "1" @@ 50 :> "2" @@ 51 :> "3" @@
  52 :> "4" @@ 53 :> "5" @@ 54 :> "6" @@ 55 :> "7" @@ 56 :> "8" @@
  57 :> "9" @@ 58 :> ":" @@ 59 :> ";" @@ 60 :> "<" @@ 61 :> "=" @@
  62 :> ">" @@ 63 :> "?" @@ 64 :> "@" @@ 65 :> "A" @@ 66 :> "B" @@
  67 :> "C" @@ 68 :> "D" @@ 69 :> "E" @@ 70 :> "F" @@ 71 :> "G" @@
  72 :> "H" @@ 73 :> "I" @@ 74 :> "J" @@ 75 :> "K" @@ 76 :> "L" @@
  77 :> "M" @@ 78 :> "N" @@ 79 :> "O" @@ 80 :> "P" @@ 81 :> "Q" @@
  82 :> "R" @@ 83 :> "S" @@ 84 :> "T" @@ 85 :> "U" @@ 86 :> "V" @@
  87 :> "W" @@ 88 :> "X" @@ 89 :> "Y" @@ 90 :> "Z" @@ 91 :> "[" @@
  92 :> "\\" @@ 93 :> "]" @@ 94 :> "^" @@ 95 :> "_" @@   97 :> "a" @@ 98 :> "b" @@ 99 :> "c" @@ 100 :> "d" @@ 101 :> "e" @@
  102 :> "f" @@ 103 :> "g" @@ 104 :> "h" @@ 105 :> "i" @@ 106 :> "j" @@
  107 :> "k" @@ 108 :> "l" @@ 109 :> "m" @@ 110 :> "n" @@ 111 :> "o" @@
  112 :> "p" @@ 113 :> "q" @@ 114 :> "r" @@ 115 :> "s" @@ 116 :> "t" @@
  117 :> "u" @@ 118 :> "v" @@ 119 :> "w" @@ 120 :> "x" @@ 121 :> "y" @@
  122 :> "z" @@ 123 :> "{" @@ 124 :> "|" @@ 125 :> "}" @@ 126 :> "~"

\* The byte of the escape %XY at position i of chars, -1 if there is none
escapeByte(chars, i) ==
  IF /\ i + 2 <= Len(chars)
     /\ chars[i] = "%"
     /\ chars[i + 1] \in DOMAIN HexValue
     /\ chars[i + 2] \in DOMAIN HexValue
  THEN 16 * HexValue[chars[i + 1]] + HexValue[chars[i + 2]]
  ELSE -1

\* The number of continuation bytes a UTF-8 lead byte announces, -1 for a
\* byte that cannot lead
continuationBytes(byte) ==
  CASE byte >= 0 /\ byte < 128 -> 0
    [] byte >= 194 /\ byte <= 223 -> 1
    [] byte >= 224 /\ byte <= 239 -> 2
    [] byte >= 240 /\ byte <= 244 -> 3
    [] OTHER -> -1

\* decodeURIComponent(chars) from position i on: [ok |-> TRUE, v |-> the
\* decoded string], or [ok |-> FALSE] if it throws URIError for a malformed
\* escape. A decoded character outside printable ASCII is written as its
\* escapes.
RECURSIVE decodeFrom(_, _)
decodeFrom(chars, i) ==
  IF i > Len(chars) THEN [ok |-> TRUE, v |-> ""]
  ELSE IF chars[i] /= "%"
  THEN LET rest == decodeFrom(chars, i + 1)
       IN IF rest.ok THEN [ok |-> TRUE, v |-> chars[i] \o rest.v] ELSE rest
  ELSE LET byte == escapeByte(chars, i)
           n == continuationBytes(byte)
           followers == {escapeByte(chars, i + 3 * k) : k \in 1..n}
       IN IF n = -1 \/ \E b \in followers : b < 128 \/ b > 191
          THEN [ok |-> FALSE]
          ELSE LET rest == decodeFrom(chars, i + 3 * (n + 1))
                   char == IF byte \in DOMAIN AsciiOf THEN AsciiOf[byte]
                           ELSE Join(SubSeq(chars, i, i + 3 * (n + 1) - 1))
               IN IF rest.ok THEN [ok |-> TRUE, v |-> char \o rest.v]
                  ELSE rest

decodeURIComponent(chars) == decodeFrom(chars, 1)

\* ------------------------------------------------------------------- URLs
\* The smallest position of chars holding a character of the class,
\* Len(chars) + 1 if there is none
firstIndexIn(chars, class) ==
  IF \E i \in 1..Len(chars) : chars[i] \in class
  THEN CHOOSE i \in 1..Len(chars) :
         chars[i] \in class /\ NoneIn(chars, 1, i - 1, class)
  ELSE Len(chars) + 1

\* The largest position of chars holding c, 0 if there is none
lastIndexOf(chars, c) ==
  IF \E i \in 1..Len(chars) : chars[i] = c
  THEN CHOOSE i \in 1..Len(chars) :
         chars[i] = c /\ NoneIn(chars, i + 1, Len(chars), {c})
  ELSE 0

\* The URL parser's preprocessing: line ends removed, spaces at the end cut
RECURSIVE trimEnd(_)
trimEnd(chars) ==
  IF chars /= <<>> /\ chars[Len(chars)] = " "
  THEN trimEnd(SubSeq(chars, 1, Len(chars) - 1)) ELSE chars

urlInput(chars) == trimEnd(SelectSeq(chars, LAMBDA c : c /= "\n"))

\* Percent-decoding of a host: a well-formed escape of a printable ASCII
\* character is replaced by the character, anything else is kept.
RECURSIVE hostDecode(_)
hostDecode(chars) ==
  IF chars = <<>> THEN <<>>
  ELSE IF escapeByte(chars, 1) \in DOMAIN AsciiOf
  THEN <<AsciiOf[escapeByte(chars, 1)]>> \o hostDecode(SubSeq(chars, 4, Len(chars)))
  ELSE <<Head(chars)>> \o hostDecode(Tail(chars))

\* The forbidden domain code points among the characters used
ForbiddenHostChars ==
  {" ", "\"", "#", "%", "/", ":", "<", ">", "?", "@", "[", "\\", "]", "^",
   "{", "|", "}"}

\* The number a sequence of decimal digits denotes
RECURSIVE digitsValue(_)
digitsValue(chars) ==
  IF chars = <<>> THEN 0
  ELSE 10 * digitsValue(SubSeq(chars, 1, Len(chars) - 1))
         + HexValue[chars[Len(chars)]]

Power256(n) == CASE n = 0 -> 1 [] n = 1 -> 256 [] n = 2 -> 65536
                 [] OTHER -> 16777216

\* The host of an http(s) URL from the decoded host characters: a domain in
\* lower case, or the dotted quad if the last label is a number (the last
\* number fills the bytes the numbers before it leave); ok is FALSE where
\* the parser fails. Numbers are decimal, without a leading zero and of at
\* most nine digits.
hostOf(decoded) ==
  LET labels0 == split(decoded, ".")
      labels == IF Len(labels0) > 1 /\ labels0[Len(labels0)] = <<>>
                THEN SubSeq(labels0, 1, Len(labels0) - 1) ELSE labels0
      n == Len(labels)
      numeric(l) == l /= <<>> /\ Len(l) <= 9 /\ AllIn(l, 1, Len(l), Digits)
      value(i) == digitsValue(labels[i])
      byte(k) == IF k < n THEN value(k)
                 ELSE (value(n) \div Power256(4 - k)) % 256
  IN IF decoded = <<>> \/ \E i \in 1..Len(decoded) : decoded[i] \in ForbiddenHostChars
     THEN [ok |-> FALSE]
     ELSE IF ~(labels[n] /= <<>> /\ AllIn(labels[n], 1, Len(labels[n]), Digits))
     THEN [ok |-> TRUE, hostname |-> Join(toLowerCase(decoded))]
     ELSE IF \/ n > 4
             \/ \E i \in 1..n : ~numeric(labels[i])
             \/ \E i \in 1..(n - 1) : value(i) > 255
             \/ (n > 1 /\ value(n) >= Power256(5 - n))
     THEN [ok |-> FALSE]
     ELSE [ok |-> TRUE,
           hostname |-> ToString(byte(1)) \o "." \o ToString(byte(2)) \o "."
                          \o ToString(byte(3)) \o "." \o ToString(byte(4))]

\* Percent-encoding of a path or query: the characters of the encode set
\* among those used
RECURSIVE percentEncode(_, _)
percentEncode(chars, encodeSet) ==
  IF chars = <<>> THEN ""
  ELSE (CASE Head(chars) \notin encodeSet -> Head(chars)
          [] Head(chars) = " " -> "%20"
          [] Head(chars) = "\"" -> "%22"
          [] Head(chars) = "<" -> "%3C"
          [] Head(chars) = ">" -> "%3E"
          [] Head(chars) = "'" -> "%27"
          [] Head(chars) = "{" -> "%7B"
          [] OTHER -> "%7D")
         \o percentEncode(Tail(chars), encodeSet)

PathEncodeSet == {" ", "\"", "<", ">", "{", "}"}
QueryEncodeSet == {" ", "\"", "<", ">", "'"}

\* Decoding of a name or value of URLSearchParams: "+" is a space, a
\* well-formed escape of a printable ASCII character is the character.
RECURSIVE formDecode(_)
formDecode(chars) ==
  IF chars = <<>> THEN ""
  ELSE IF Head(chars) = "+" THEN " " \o formDecode(Tail(chars))
  ELSE IF escapeByte(chars, 1) \in DOMAIN AsciiOf
  THEN AsciiOf[escapeByte(chars, 1)] \o formDecode(SubSeq(chars, 4, Len(chars)))
  ELSE Head(chars) \o formDecode(Tail(chars))

\* Object.fromEntries(url.searchParams) for the query characters: the pairs
\* name=value between "&", a later pair replacing an earlier one of its name
searchParams(query) ==
  LET pairs == SelectSeq(split(query, "&"), LAMBDA p : p /= <<>>)
      eq(p) == firstIndexIn(p, {"="})
      name(p) == formDecode(SubSeq(p, 1, eq(p) - 1))
      value(p) == formDecode(SubSeq(p, eq(p) + 1, Len(p)))
      last(k) == CHOOSE i \in 1..Len(pairs) :
                   name(pairs[i]) = k
                   /\ \A j \in (i + 1)..Len(pairs) : name(pairs[j]) /= k
  IN [k \in {name(pairs[i]) : i \in 1..Len(pairs)} |->
        JStr(value(pairs[last(k)]))]

\* The slashes after the scheme of a special URL are skipped
RECURSIVE skipSlashes(_)
skipSlashes(chars) ==
  IF chars /= <<>> /\ Head(chars) \in {"/", "\\"}
  THEN skipSlashes(Tail(chars)) ELSE chars

\* new URL(data) for a string that starts with http:// or https://: ok is
\* FALSE where the constructor throws TypeError. Paths have no dot segments.
newURL(data) ==
  LET input == urlInput(data)
      colon == firstIndexIn(input, {":"})
      afterScheme == SubSeq(input, colon + 1, Len(input))
      rest == skipSlashes(afterScheme)
      authorityEnd == firstIndexIn(rest, {"/", "\\", "?", "#"})
      authority == SubSeq(rest, 1, authorityEnd - 1)
      hostPort == SubSeq(authority, lastIndexOf(authority, "@") + 1, Len(authority))
      portColon == firstIndexIn(hostPort, {":"})
      port == SubSeq(hostPort, portColon + 1, Len(hostPort))
      host == hostOf(hostDecode(SubSeq(hostPort, 1, portColon - 1)))
      tail == SubSeq(rest, authorityEnd, Len(rest))
      noFragment == SubSeq(tail, 1, firstIndexIn(tail, {"#"}) - 1)
      pathEnd == firstIndexIn(noFragment, {"?"})
      path == SubSeq(noFragment, 1, pathEnd - 1)
      query == SubSeq(noFragment, pathEnd + 1, Len(noFragment))
  IN IF \/ ~host.ok
        \/ ~AllIn(port, 1, Len(port), Digits)
        \/ Len(port) > 5
        \/ digitsValue(port) > 65535
     THEN [ok |-> FALSE]
     ELSE [ok |-> TRUE,
           protocol |-> Join(toLowerCase(SubSeq(input, 1, colon))),
           hostname |-> host.hostname,
           pathname |-> IF path = <<>> THEN "/"
                        ELSE percentEncode([i \in 1..Len(path) |->
                                              IF path[i] = "\\" THEN "/" ELSE path[i]],
                                           PathEncodeSet),
           search |-> IF query = <<>> THEN ""
                      ELSE "?" \o percentEncode(query, QueryEncodeSet),
           params |-> searchParams(query)]

\* QRCodeParser.parseURL: the object built from a constructed URL, or the
\* catch branch's object where the constructor threw
urlFields(data, url) ==
  IF url.ok
  THEN JObj([url |-> JStr(Join(data)),
             protocol |-> JStr(url.protocol),
             hostname |-> JStr(url.hostname),
             pathname |-> JStr(url.pathname),
             search |-> JStr(url.search),
             params |-> JObj(url.params)])
  ELSE JObj([url |-> JStr(Join(data)), error |-> JStr("Invalid URL format")])

\* QRCodeParser.parseURL
parseURL(data) == urlFields(data, newURL(data))

\* ------------------------------------------------------------- extraction
\* An exception leaving a method, in place of its result
Throws == [throw |-> TRUE]

\* QRCodeParser.parseEmail: the fields, or Throws where decodeURIComponent
\* throws URIError
parseEmail(data) ==
  IF startsWith(data, <<"m", "a", "i", "l", "t", "o", ":">>)
  THEN LET mailto == substringFrom(data, 7)
           parts == split(mailto, "?")
           email == parts[1]
           params == IF Len(parts) >= 2 THEN parts[2] ELSE <<>>
           pairs == IF params = <<>> THEN <<>> ELSE split(params, "&")
           key(p) == Join(split(p, "=")[1])
           value(p) == IF Len(split(p, "=")) >= 2 THEN split(p, "=")[2] ELSE <<>>
           last(k) == CHOOSE i \in 1..Len(pairs) :
                        key(pairs[i]) = k
                        /\ \A j \in (i + 1)..Len(pairs) : key(pairs[j]) /= k
           paramObj(k) ==
             IF \E i \in 1..Len(pairs) : key(pairs[i]) = k
             THEN decodeURIComponent(value(pairs[last(k)])).v
             ELSE ""
       IN IF \E i \in 1..Len(pairs) : ~decodeURIComponent(value(pairs[i])).ok
          THEN Throws
          ELSE JObj([email |-> JStr(Join(email)),
                     subject |-> JStr(paramObj("subject")),
                     body |-> JStr(paramObj("body")),
                     cc |-> JStr(paramObj("cc")),
                     bcc |-> JStr(paramObj("bcc"))])
  ELSE JObj([email |-> JStr(Join(data))])

\* QRCodeParser.parsePhone
parsePhone(data) ==
  LET noScheme == IF startsWith(data, <<"t", "e", "l", ":">>)
                  THEN substringFrom(data, 4) ELSE data
      phone == SelectSeq(noScheme, LAMBDA c : c \in Digits \cup {"+"})
  IN JObj([phone |-> JStr(Join(phone)),
           formatted |-> JStr(Join(data)),
           country_code |-> IF startsWith(phone, <<"+">>)
                            THEN JStr(Join(SubSeq(phone, 2, Min(3, Len(phone)))))
                            ELSE JNull])

\* The matches of /WIFI:T:(.*?);S:(.*?);P:(.*?);H:(.*?);/i in data: the
\* positions of "WIFI:T:", ";S:", ";P:", ";H:" and the closing ";"
wifiMatches(data) ==
  LET lower == toLowerCase(data)
      sameLine(from, to) == NoneIn(data, from, to, {"\n"})
  IN {m \in Occurrences(lower, <<"w", "i", "f", "i", ":", "t", ":">>)
            \X Occurrences(lower, <<";", "s", ":">>)
            \X Occurrences(lower, <<";", "p", ":">>)
            \X Occurrences(lower, <<";", "h", ":">>)
            \X Occurrences(lower, <<";">>) :
        /\ m[1] + 7 <= m[2] /\ sameLine(m[1] + 7, m[2] - 1)
        /\ m[2] + 3 <= m[3] /\ sameLine(m[2] + 3, m[3] - 1)
        /\ m[3] + 3 <= m[4] /\ sameLine(m[3] + 3, m[4] - 1)
        /\ m[4] + 3 <= m[5] /\ sameLine(m[4] + 3, m[5] - 1)}

\* m comes before n in the order the regular expression engine tries the
\* matches: leftmost start, then the shortest groups from left to right
RECURSIVE triedBefore(_, _)
triedBefore(m, n) ==
  \/ m = <<>>
  \/ Head(m) < Head(n)
  \/ Head(m) = Head(n) /\ triedBefore(Tail(m), Tail(n))

\* QRCodeParser.parseWiFi
parseWiFi(data) ==
  IF wifiMatches(data) /= {}
  THEN LET m == CHOOSE x \in wifiMatches(data) :
                  \A y \in wifiMatches(data) : triedBefore(x, y)
       IN JObj([security |-> JStr(Join(SubSeq(data, m[1] + 7, m[2] - 1))),
                ssid |-> JStr(Join(SubSeq(data, m[2] + 3, m[3] - 1))),
                password |-> JStr(Join(SubSeq(data, m[3] + 3, m[4] - 1))),
                hidden |-> JBool(SubSeq(data, m[4] + 3, m[5] - 1)
                                   = <<"t", "r", "u", "e">>)])
  ELSE JObj([raw |-> JStr(Join(data)), error |-> JStr("Invalid WiFi format")])

\* QRCodeParser.parseVCard: the lines with a colon after their first
\* character, key in lower case, a later line replacing an earlier one
parseVCard(data) ==
  LET lines == SelectSeq(split(data, "\n"),
                         LAMBDA l : firstIndexIn(l, {":"}) \in 2..Len(l))
      key(l) == Join(toLowerCase(SubSeq(l, 1, firstIndexIn(l, {":"}) - 1)))
      value(l) == Join(SubSeq(l, firstIndexIn(l, {":"}) + 1, Len(l)))
      last(k) == CHOOSE i \in 1..Len(lines) :
                   key(lines[i]) = k
                   /\ \A j \in (i + 1)..Len(lines) : key(lines[j]) /= k
  IN JObj([k \in {key(lines[i]) : i \in 1..Len(lines)} |->
             JStr(value(lines[last(k)]))])

\* The characters of [-\d.]
GeoChars == Digits \cup {"-", "."}

\* The length of the longest run of characters of the class that starts at
\* position i
runLength(chars, i, class) ==
  firstIndexIn(SubSeq(chars, i, Len(chars)),
               {c \in {chars[k] : k \in 1..Len(chars)} : c \notin class}) - 1

\* parseFloat of a string of [-\d.]: the number read from its longest
\* prefix of the form -?digits(.digits)?, NaN if no digit is read
parseFloat(chars) ==
  LET start == IF chars /= <<>> /\ chars[1] = "-" THEN 2 ELSE 1
      whole == runLength(chars, start, Digits)
      dot == start + whole
      fraction == IF dot <= Len(chars) /\ chars[dot] = "."
                  THEN runLength(chars, dot + 1, Digits) ELSE 0
  IN IF whole = 0 /\ fraction = 0 THEN NaN
     ELSE JFloat(SubSeq(chars, 1, IF fraction = 0 THEN dot - 1 ELSE dot + fraction))

\* QRCodeParser.parseGeo with
\* /geo:([-\d.]+),([-\d.]+)(?:,([-\d.]+))?(?:\?(.*))?/i
parseGeo(data) ==
  LET lower == toLowerCase(data)
      lat(p) == runLength(data, p + 4, GeoChars)
      lng(p) == runLength(data, p + 5 + lat(p), GeoChars)
      matchesAt(p) ==
        /\ lat(p) > 0
        /\ p + 4 + lat(p) <= Len(data)
        /\ data[p + 4 + lat(p)] = ","
        /\ lng(p) > 0
      starts == {p \in Occurrences(lower, <<"g", "e", "o", ":">>) : matchesAt(p)}
  IN IF starts = {}
     THEN JObj([raw |-> JStr(Join(data)), error |-> JStr("Invalid geo format")])
     ELSE LET p == CHOOSE x \in starts : \A y \in starts : x <= y
              latFrom == p + 4
              lngFrom == latFrom + lat(p) + 1
              next == lngFrom + lng(p)
              alt == IF next <= Len(data) /\ data[next] = ","
                     THEN runLength(data, next + 1, GeoChars) ELSE 0
              after == IF alt > 0 THEN next + 1 + alt ELSE next
              hasQuery == after <= Len(data) /\ data[after] = "?"
              query == SubSeq(data, after + 1,
                              after + runLength(data, after + 1,
                                                {c \in {data[k] : k \in 1..Len(data)} :
                                                   c /= "\n"}))
          IN JObj([latitude |-> parseFloat(SubSeq(data, latFrom, latFrom + lat(p) - 1)),
                   longitude |-> parseFloat(SubSeq(data, lngFrom, lngFrom + lng(p) - 1)),
                   altitude |-> IF alt > 0
                                THEN parseFloat(SubSeq(data, next + 1, next + alt))
                                ELSE JNull,
                   query |-> IF hasQuery /\ query /= <<>>
                             THEN JStr(Join(query)) ELSE JNull])

\* QRCodeParser.parseMultidimensional for the value JSON.parse gave; a layer
\* that is null makes layer.data throw, which the method catches.
parseMultidimensional(parsed) ==
  LET layers == Prop(parsed, "layers")
      isList == Truthy(layers) /\ TypeOf(layers) = "array"
      mapped(index) ==
        LET layer == ValueOf(layers)[index + 1]
        IN JObj([layer |-> JNum(index),
                 data |-> OrValue(Prop(layer, "data"), layer),
                 checksum |-> Prop(layer, "checksum"),
                 dependencies |-> OrValue(Prop(layer, "dependencies"), JArr(<<>>))])
  IN IF isList /\ \E i \in 1..Len(ValueOf(layers)) : TypeOf(ValueOf(layers)[i]) = "null"
     THEN JObj([error |-> JStr("Failed to parse multidimensional data")])
     ELSE JObj([total_layers |-> JNum(IF isList THEN Len(ValueOf(layers)) ELSE 0),
                layers |-> JArr(IF isList
                                THEN [i \in 1..Len(ValueOf(layers)) |-> mapped(i - 1)]
                                ELSE <<>>),
                metadata |-> OrValue(Prop(parsed, "metadata"), JObj(NoFields))])

\* The dates written in the payloads, as days
DateStrings == [k \in {"2020-01-01", "2030-01-01"} |->
                  IF k = "2020-01-01" THEN 0 ELSE 3653]

\* new Date(value).getTime() in days: None for an invalid date. A number is
\* a count of milliseconds, null is 0, a string outside DateStrings is no
\* date.
dateOf(value) ==
  CASE TypeOf(value) = "string" /\ ValueOf(value) \in DOMAIN DateStrings -> Some(DateStrings[ValueOf(value)])
    [] TypeOf(value) = "number" -> Some(ValueOf(value) \div 86400000)
    [] TypeOf(value) = "null" -> Some(0)
    [] TypeOf(value) = "boolean" -> Some(0)
    [] OTHER -> None

\* QRCodeParser.parseMedicineTracking for the value JSON.parse gave, at the
\* time today (in days)
parseMedicineTracking(parsed, today) ==
  LET data == Prop(parsed, "data")
      expiry == dateOf(Prop(data, "expiry_date"))
  IN IF /\ TypeOf(Prop(parsed, "type")) = "string"
        /\ ValueOf(Prop(parsed, "type")) = "medicine_tracking"
        /\ Truthy(data)
     THEN JObj([medicine_type |-> JStr("medicine_tracking"),
                scan_timestamp |-> JStr(ToString(today)),
                generated_timestamp |-> Prop(parsed, "timestamp"),
                medicine_id |-> Prop(data, "medicine_id"),
                medicine_name |-> Prop(data, "medicine_name"),
                batch_number |-> Prop(data, "batch_number"),
                manufacturing_date |-> Prop(data, "manufacturing_date"),
                expiry_date |-> Prop(data, "expiry_date"),
                manufacturer |-> Prop(data, "manufacturer"),
                dosage_form |-> Prop(data, "dosage_form"),
                strength |-> Prop(data, "strength"),
                active_ingredient |-> Prop(data, "active_ingredient"),
                ndc_number |-> Prop(data, "ndc_number"),
                lot_number |-> Prop(data, "lot_number"),
                storage_conditions |-> Prop(data, "storage_conditions"),
                prescription_required |-> Prop(data, "prescription_required"),
                tracking_id |-> Prop(data, "tracking_id"),
                verification_code |-> Prop(data, "verification_code"),
                medicine_data |-> data,
                raw_medicine_data |-> parsed,
                is_expired |-> JBool(expiry /= None /\ expiry[1] < today),
                days_until_expiry |-> IF expiry = None THEN NaN
                                      ELSE JNum(expiry[1] - today)])
     ELSE parsed

\* ---------------------------------------------------------- QRCodeParser
\* A scanned string rawData: json is Some(value) if the string is the JSON
\* text of an object or an array, the value JSON.parse gives; otherwise json
\* is None (JSON.parse throws or gives null or a scalar, which detectDataType
\* treats alike) and text holds the characters of the string.

\* detectDataType testing the layers list before the discriminator. C14 tells
\* the two apart.
detectDataTypeLayersFirst(rawData) ==
  IF rawData.json /= None /\ Truthy(rawData.json[1]) /\ IsObject(rawData.json[1])
  THEN LET parsed == rawData.json[1]
       IN IF Truthy(Prop(parsed, "layers")) /\ TypeOf(Prop(parsed, "layers")) = "array"
          THEN "multidimensional"
          ELSE IF /\ TypeOf(Prop(parsed, "type")) = "string"
                  /\ ValueOf(Prop(parsed, "type")) = "medicine_tracking"
                  /\ Truthy(Prop(parsed, "data"))
          THEN "medicine_tracking"
          ELSE "json"
  ELSE LET data == rawData.text
       IN CASE matchesUrl(data) -> "url"
            [] OTHER ->
          CASE matchesMailto(data) \/ matchesBareEmail(data) -> "email"
            [] OTHER ->
          CASE matchesTel(data) \/ matchesPhoneDigits(data) -> "phone"
            [] OTHER ->
          CASE matchesSms(data) -> "sms"
            [] OTHER ->
          CASE matchesWifi(data) -> "wifi"
            [] OTHER ->
          CASE matchesVCard(data) -> "vcard"
            [] OTHER ->
          CASE matchesVEvent(data) -> "event"
            [] OTHER ->
          CASE matchesGeo(data) -> "geo"
            [] OTHER ->
          CASE matchesXml(data) -> "xml"
            [] OTHER -> "text"

\* QRCodeParser.detectDataType
detectDataType(rawData) ==
  IF rawData.json /= None /\ Truthy(rawData.json[1]) /\ IsObject(rawData.json[1])
  THEN LET parsed == rawData.json[1]
       IN IF /\ TypeOf(Prop(parsed, "type")) = "string"
             /\ ValueOf(Prop(parsed, "type")) = "medicine_tracking"
             /\ Truthy(Prop(parsed, "data"))
          THEN "medicine_tracking"
          ELSE IF Truthy(Prop(parsed, "layers")) /\ TypeOf(Prop(parsed, "layers")) = "array"
          THEN "multidimensional"
          ELSE "json"
  ELSE LET data == rawData.text
       IN CASE matchesUrl(data) -> "url"
            [] OTHER ->
          CASE matchesMailto(data) \/ matchesBareEmail(data) -> "email"
            [] OTHER ->
          CASE matchesTel(data) \/ matchesPhoneDigits(data) -> "phone"
            [] OTHER ->
          CASE matchesSms(data) -> "sms"
            [] OTHER ->
          CASE matchesWifi(data) -> "wifi"
            [] OTHER ->
          CASE matchesVCard(data) -> "vcard"
            [] OTHER ->
          CASE matchesVEvent(data) -> "event"
            [] OTHER ->
          CASE matchesGeo(data) -> "geo"
            [] OTHER ->
          CASE matchesXml(data) -> "xml"
            [] OTHER -> "text"

\* QRCodeParser.extractStructuredData at the time today: the field mapping,
\* or Throws. The case CUSTOM is the default here, since JSON.parse throws
\* on a string that has no json.
extractStructuredData(rawData, type, today) ==
  CASE type = "url" -> parseURL(rawData.text)
    [] type = "email" -> parseEmail(rawData.text)
    [] type = "phone" -> parsePhone(rawData.text)
    [] type = "wifi" -> parseWiFi(rawData.text)
    [] type = "vcard" -> parseVCard(rawData.text)
    [] type = "geo" -> parseGeo(rawData.text)
    [] type = "json" -> rawData.json[1]
    [] type = "multidimensional" -> parseMultidimensional(rawData.json[1])
    [] type = "medicine_tracking" -> parseMedicineTracking(rawData.json[1], today)
    [] OTHER -> JObj([text |-> JStr(Join(rawData.text))])

\* calculateDepth of calculateDimensions
RECURSIVE calculateDepth(_, _)
calculateDepth(obj, depth) ==
  IF ~IsObject(obj) THEN depth
  ELSE LET depths == {depth} \cup {calculateDepth(ValueOf(obj)[k], depth + 1) :
                                     k \in {q \in ObjectKeys(obj) : IsObject(ValueOf(obj)[q])}}
       IN CHOOSE max \in depths : \A d \in depths : d <= max

\* QRCodeParser.calculateDimensions
calculateDimensions(data) ==
  IF Truthy(Prop(data, "layers")) /\ TypeOf(Prop(data, "layers")) = "array"
  THEN Len(ValueOf(Prop(data, "layers")))
  ELSE calculateDepth(data, 1)

\* data.layers && data.layers.length > 0, for layers that are no string
hasLayers(data) ==
  LET layers == Prop(data, "layers")
  IN /\ Truthy(layers)
     /\ TypeOf(layers) = "array"
     /\ Len(ValueOf(layers)) > 0

\* validateData testing for the error key in place of the truthiness of its
\* value. C17 tells the two apart.
validateDataErrorKey(data, type) ==
  IF TypeOf(data) = "object" /\ "error" \in DOMAIN ValueOf(data) THEN "corrupted"
  ELSE CASE type = "url" ->
              IF Truthy(Prop(data, "url")) /\ ~Truthy(Prop(data, "error"))
              THEN "valid" ELSE "invalid"
         [] type = "email" ->
              IF Truthy(Prop(data, "email")) THEN "valid" ELSE "invalid"
         [] type = "multidimensional" ->
              IF hasLayers(data) THEN "valid" ELSE "incomplete"
         [] type = "medicine_tracking" ->
              IF /\ Truthy(Prop(data, "medicine_id"))
                 /\ Truthy(Prop(data, "medicine_name"))
                 /\ Truthy(Prop(data, "batch_number"))
              THEN "valid" ELSE "incomplete"
         [] OTHER -> "valid"

\* QRCodeParser.validateData
validateData(data, type) ==
  IF Truthy(Prop(data, "error")) THEN "corrupted"
  ELSE CASE type = "url" ->
              IF Truthy(Prop(data, "url")) /\ ~Truthy(Prop(data, "error"))
              THEN "valid" ELSE "invalid"
         [] type = "email" ->
              IF Truthy(Prop(data, "email")) THEN "valid" ELSE "invalid"
         [] type = "multidimensional" ->
              IF hasLayers(data) THEN "valid" ELSE "incomplete"
         [] type = "medicine_tracking" ->
              IF /\ Truthy(Prop(data, "medicine_id"))
                 /\ Truthy(Prop(data, "medicine_name"))
                 /\ Truthy(Prop(data, "batch_number"))
              THEN "valid" ELSE "incomplete"
         [] OTHER -> "valid"

\* parseQRCode without its catch block: a throw of the extraction leaves the
\* method. C13 tells the two apart.
parsedRecordUncaught(rawData, today, dataType, parsedData) ==
  IF TypeOf(parsedData) = "throw"
  THEN Throws
  ELSE [raw_data |-> rawData,
        parsed_data |-> parsedData,
        data_type |-> dataType,
        dimensions |-> calculateDimensions(parsedData),
        validation_status |-> validateData(parsedData, dataType),
        scan_timestamp |-> today]

\* QRCodeParser.parseQRCode at the time today, its two return statements: the
\* record of the try block (it has no id key), or the record of the catch
\* block where extraction threw
parsedRecordOf(rawData, today, dataType, parsedData) ==
  IF TypeOf(parsedData) = "throw"
  THEN [raw_data |-> rawData,
        parsed_data |-> JObj([error |-> JStr("Failed to parse QR code")]),
        data_type |-> "custom",
        dimensions |-> 1,
        validation_status |-> "corrupted",
        scan_timestamp |-> today]
  ELSE [raw_data |-> rawData,
        parsed_data |-> parsedData,
        data_type |-> dataType,
        dimensions |-> calculateDimensions(parsedData),
        validation_status |-> validateData(parsedData, dataType),
        scan_timestamp |-> today]

\* QRCodeParser.parseQRCode after detectDataType: extraction, then the record
parseAs(rawData, today, dataType) ==
  parsedRecordOf(rawData, today, dataType, extractStructuredData(rawData, dataType, today))

\* QRCodeParser.parseQRCode
parseQRCode(rawData, today) == parseAs(rawData, today, detectDataType(rawData))

\* ------------------------------------------------------------ scan payloads
\* The QR strings the portals scan: qr names the printed code (the
\* shipment), latin1 tells whether every character of the string is in the
\* Latin-1 range. A character outside ASCII is written by its code point.
QRPayloads ==
  { [qr |-> "QR-MED", latin1 |-> TRUE,
     json |-> Some(JObj([type |-> JStr("medicine_tracking"),
                         data |-> JObj([medicine_id |-> JStr("MED-1"),
                                        medicine_name |-> JStr("Aspirin"),
                                        batch_number |-> JStr("BATCH-1"),
                                        destination_district |-> JStr("Mumbai")])]))],
    [qr |-> "QR-DHAKA", latin1 |-> TRUE,
     json |-> Some(JObj([assigned_district |-> JStr("Dhaka")]))],
    [qr |-> "QR-CTG", latin1 |-> TRUE,
     json |-> Some(JObj([assigned_district |-> JStr("Chittagong"),
                         destination_district |-> JStr("Dhaka")]))],
    [qr |-> "QR-MUMBAI", latin1 |-> TRUE,
     json |-> Some(JObj([destination_district |-> JStr("Mumbai")]))],
    [qr |-> "QR-TEXT", latin1 |-> FALSE, json |-> None,
     text |-> <<"T", "k", " ", "U+09F3", "5">>] }

\* -------------------------------------------------------- tamper-proof log
agentInfo == [id |-> "AGENT-001", name |-> "Mohammad Rahman"]

\* crypto.randomUUID(): the n-th identifier of a kind, fresh by construction.
randomUUID(kind, n) == kind \o "-" \o ToString(n)

\* The first 12 characters of JSON.stringify({eventType, ...}): {"eventType"
EventTypeKey == <<"{", "\"", "e", "v", "e", "n", "t", "T", "y", "p", "e", "\"">>

\* JSON.stringify of the object createTamperProofLog hashes, as a sequence of
\* characters; every element after EventTypeKey stands for one or more
\* characters of the text.
JSONStringify(data) ==
  EventTypeKey \o
  <<":", ToString(data.eventType), ",", "\"location\":", ToString(data.location),
    ",", "\"timestamp\":", ToString(data.timestamp),
    ",", "\"agentId\":", ToString(data.agentId),
    ",", "\"additionalData\":", ToString(data.additionalData), "}">>

\* btoa: every 3 characters give one group of 4 base64 characters; a group is
\* written as the characters it encodes (base64 is one-to-one on groups).
btoa(s) ==
  [i \in 1..((Len(s) + 2) \div 3) |-> SubSeq(s, 3 * i - 2, Min(3 * i, Len(s)))]

\* .substring(0, 16) of a base64 text: its first 4 groups.
substring16(b) == SubSeq(b, 1, Min(4, Len(b)))

\* btoa throws InvalidCharacterError on a character outside Latin-1.
btoaThrows(additionalData) ==
  additionalData /= None /\ ~additionalData[1].latin1

generateHash(data) ==
  substring16(btoa(JSONStringify(data) \o <<ToString(now)>>))

\* The entry has no previous_hash key.
createTamperProofLog(eventType, location, additionalData, id) ==
  [id |-> id,
   event_type |-> eventType,
   gps_coordinates |-> location,
   timestamp |-> now,
   hash |-> generateHash([eventType |-> eventType, location |-> location,
                          timestamp |-> now, agentId |-> agentInfo.id,
                          additionalData |-> additionalData])]

\* ------------------------------------------------------ diversion detection
assignedDistrictOf(parsedQR) ==
  OrElse(PropString(parsedQR.parsed_data, "assigned_district"),
         OrElse(PropString(parsedQR.parsed_data, "destination_district"), "Unknown"))

\* isDiversionOf without the test of the assigned district against 'Unknown'.
\* C5 tells the two apart.
isDiversionOfAnyAssigned(currentDistrict, assignedDistrict) ==
  /\ currentDistrict /= assignedDistrict
  /\ currentDistrict /= "Unknown"

isDiversionOf(currentDistrict, assignedDistrict) ==
  /\ currentDistrict /= assignedDistrict
  /\ assignedDistrict /= "Unknown"
  /\ currentDistrict /= "Unknown"

\* bangladeshDistricts.find(d => d.name === assignedDistrict), None if absent
findDistrict(assignedDistrict) ==
  LET hits == {i \in 1..Len(bangladeshDistricts) :
                 bangladeshDistricts[i].name = assignedDistrict}
  IN IF hits = {} THEN None
     ELSE Some(bangladeshDistricts[CHOOSE i \in hits : \A j \in hits : i <= j])

diversionDistanceOf(isDiversion, location, assignedDistrict) ==
  IF isDiversion /\ findDistrict(assignedDistrict) /= None
  THEN calculateDistance(location.latitude, location.longitude,
                         findDistrict(assignedDistrict)[1].lat,
                         findDistrict(assignedDistrict)[1].lng)
  ELSE 0

\* transactions.find(t => t.qr_code_id === id), None if absent
findTransaction(ts, id) ==
  LET hits == {i \in 1..Len(ts) : ts[i].qr_code_id = id}
  IN IF hits = {} THEN None
     ELSE Some(ts[CHOOSE i \in hits : \A j \in hits : i <= j])

\* ---------------------------------------------------------------------------
\* The record store of the scanner application in the browser's localStorage
\* (lib/localStorage.ts; the same code is the fallback of QRDatabaseService and
\* AuthService), and what the application has been asked to keep.
VARIABLES
  userKey,      \* 'mediverify_user': None, or Some of the signed-in user
  qrCodesKey,      \* 'mediverify_qr_codes': the stored array (absent reads as [])
  uuidCount,    \* crypto.randomUUID() calls so far
  kept          \* every record inserted and not deleted since, newest first

storeVars == <<userKey, qrCodesKey, uuidCount, kept>>

\* The Scanner component (Scanner.tsx 12-90) of the scanner application.
VARIABLES
  scanStatus,      \* useState: 'idle' | 'scanning' | 'success' | 'error'
  viewIsScanning,  \* useState isScanning
  viewScannerRef,  \* scannerRef.current: the number of its QRScanner, 0 for null
  viewScanners,    \* the QRScanner objects the component created
  autoStops,       \* pending 2 s timers of handleScanSuccess, by scanner
  statusResets     \* pending 3 s timers of handleScanError, by scanner

viewVars == <<scanStatus, viewIsScanning, viewScannerRef, viewScanners,
              autoStops, statusResets>>

\* The ArduinoIntegration component (part_001) and the poll loops of the
\* ArduinoCloudService objects it created (part_003 389-405).
VARIABLES
  services,          \* the ArduinoCloudService objects: whether config.thingId is set
  service,           \* useState service: the number of the object, 0 for null
  pendingTests,      \* testConnection calls awaiting currentService.testConnection()
  testCount,         \* testConnection calls so far
  connectionStatus,  \* useState connectionStatus
  pollLoops          \* the poll loops started: their service and polls made

pollVars == <<services, service, pendingTests, testCount, connectionStatus, pollLoops>>

appVars == <<storeVars, viewVars, pollVars>>

NoStore ==
  /\ userKey = None
  /\ qrCodesKey = <<>>
  /\ uuidCount = 0
  /\ kept = <<>>

NoView ==
  /\ scanStatus = "idle"
  /\ viewIsScanning = FALSE
  /\ viewScannerRef = 0
  /\ viewScanners = <<>>
  /\ autoStops = {}
  /\ statusResets = {}

NoPoll ==
  /\ services = <<>>
  /\ service = 0
  /\ pendingTests = {}
  /\ testCount = 0
  /\ connectionStatus = "disconnected"
  /\ pollLoops = <<>>

NoApp == NoStore /\ NoView /\ NoPoll

MaxUuids == 5
Emails == {"a@x", "b@x"}
SyncStatuses == {"pending", "synced", "failed"}

\* getUserQRCodes / getUserQRCodesLocal
getUserQRCodesAll(user, stored) ==
  IF user = None THEN <<>> ELSE stored

getUserQRCodes(user, stored) ==
  IF user = None THEN <<>>
  ELSE SelectSeq(stored, LAMBDA code : code.user_id = user[1].id)

\* signUp / signUpLocal
SignUp(email) ==
  /\ uuidCount < MaxUuids
  /\ uuidCount' = uuidCount + 1
  /\ userKey' = Some([id |-> randomUUID("user", uuidCount + 1), email |-> email])
  /\ UNCHANGED <<qrCodesKey, kept>>
  /\ UNCHANGED <<portalVars, detectVars, syncVars, parseVars, cameraVars, viewVars, pollVars>>

\* signIn / signInLocal: a user is created unless this email is signed in now
SignIn(email) ==
  /\ IF userKey = None \/ userKey[1].email /= email
       THEN /\ uuidCount < MaxUuids
            /\ uuidCount' = uuidCount + 1
            /\ userKey' = Some([id |-> randomUUID("user", uuidCount + 1),
                                email |-> email])
       ELSE UNCHANGED <<uuidCount, userKey>>
  /\ UNCHANGED <<qrCodesKey, kept>>
  /\ UNCHANGED <<portalVars, detectVars, syncVars, parseVars, cameraVars, viewVars, pollVars>>

\* signOut / signOutLocal
SignOut ==
  /\ userKey' = None
  /\ UNCHANGED <<qrCodesKey, uuidCount, kept>>
  /\ UNCHANGED <<portalVars, detectVars, syncVars, parseVars, cameraVars, viewVars, pollVars>>

\* insertQRCode / insertQRCodeLocal, called by App.handleScan
InsertQRCode(syncStatus) ==
  /\ userKey /= None
  /\ uuidCount < MaxUuids
  /\ uuidCount' = uuidCount + 1
  /\ LET newQRCode == [id |-> randomUUID("qr", uuidCount + 1),
                       user_id |-> userKey[1].id,
                       scan_timestamp |-> uuidCount + 1,
                       arduino_sync_status |-> syncStatus]
         existingCodes == getUserQRCodes(userKey, qrCodesKey)
     IN /\ qrCodesKey' = <<newQRCode>> \o existingCodes
        /\ kept' = <<newQRCode>> \o kept
  /\ UNCHANGED userKey
  /\ UNCHANGED <<portalVars, detectVars, syncVars, parseVars, cameraVars, viewVars, pollVars>>

isListed(codes, id) == \E i \in DOMAIN codes : codes[i].id = id

withSyncStatus(allCodes, id, syncStatus) ==
  [i \in DOMAIN allCodes |->
     IF allCodes[i].id = id
       THEN [allCodes[i] EXCEPT !.arduino_sync_status = syncStatus]
       ELSE allCodes[i]]

\* updateSyncStatus / updateSyncStatusLocal, called by App.handleSyncComplete
\* with the id of a listed record
UpdateSyncStatus(id, syncStatus) ==
  /\ isListed(getUserQRCodes(userKey, qrCodesKey), id)
  /\ qrCodesKey' = withSyncStatus(qrCodesKey, id, syncStatus)
  /\ kept' = withSyncStatus(kept, id, syncStatus)
  /\ UNCHANGED <<userKey, uuidCount>>
  /\ UNCHANGED <<portalVars, detectVars, syncVars, parseVars, cameraVars, viewVars, pollVars>>

\* deleteQRCode / deleteQRCodeLocal, called by App.handleDeleteQR with the id
\* of a listed record
DeleteQRCode(id) ==
  /\ isListed(getUserQRCodes(userKey, qrCodesKey), id)
  /\ qrCodesKey' = SelectSeq(qrCodesKey, LAMBDA code : code.id /= id)
  /\ kept' = SelectSeq(kept, LAMBDA code : code.id /= id)
  /\ UNCHANGED <<userKey, uuidCount>>
  /\ UNCHANGED <<portalVars, detectVars, syncVars, parseVars, cameraVars, viewVars, pollVars>>

QrIds == {randomUUID("qr", n) : n \in 1..MaxUuids}

\* ------------------------------------------------------------ agent portal
\* The tabs of a portal. "custody" stands for each agent tab without a scanner
\* (custody, alerts, proof), "transactions" for each such distributor tab
\* (transactions, alerts, analytics).
Tabs(c) ==
  IF c = "agent" THEN {"pickup", "delivery", "custody"} ELSE {"scan", "transactions"}

\* The tabs that render the scan button
ScanTabs(c) == IF c = "agent" THEN {"pickup", "delivery"} ELSE {"scan"}

sampleAlerts ==
  << [id |-> "1", type |-> "diversion", severity |-> "high", status |-> "active"],
     [id |-> "2", type |-> "custody", severity |-> "medium", status |-> "resolved"] >>

\* The transaction the agent's handleScanSuccess builds: the update of existingTransaction
\* on a delivery scan, a new picked_up transaction otherwise.
buildTransaction(existingTransaction, actionType, parsedQR, n, location, currentDistrict, assignedDistrict, isDiversion, diversionDistance, custodyRecord, tamperProofLog) ==
  IF existingTransaction /= None /\ actionType = "delivery"
  THEN [delivery_location |-> location,
        delivery_timestamp |-> now,
        current_district |-> currentDistrict,
        status |-> IF isDiversion THEN "diverted" ELSE "delivered",
        diversion_distance |-> diversionDistance,
        alert_triggered |-> isDiversion,
        custody_chain |-> Append(existingTransaction[1].custody_chain, custodyRecord),
        tamper_proof_log |-> Append(existingTransaction[1].tamper_proof_log,
                                    tamperProofLog)]
       @@ existingTransaction[1]
  ELSE [id |-> randomUUID("txn", n),
        qr_code_id |-> OrElse(Get(parsedQR, "id"), randomUUID("qr", n)),
        medicine_name |-> OrElse(PropString(parsedQR.parsed_data, "medicine_name"),
                                 "Unknown Medicine"),
        batch_number |-> OrElse(PropString(parsedQR.parsed_data, "batch_number"),
                                "Unknown Batch"),
        assigned_district |-> assignedDistrict,
        current_district |-> currentDistrict,
        pickup_location |-> location,
        pickup_timestamp |-> now,
        agent_id |-> agentInfo.id,
        status |-> "picked_up",
        custody_chain |-> <<custodyRecord>>,
        tamper_proof_log |-> <<tamperProofLog>>,
        diversion_distance |-> diversionDistance,
        alert_triggered |-> isDiversion]

\* saveTransaction: the stored list without the transaction's id, the
\* transaction put first.
saveTransaction(stored, transaction) ==
  <<transaction>> \o SelectSeq(stored, LAMBDA t : t.id /= transaction.id)

diversionAlert(transaction, n) ==
  [id |-> randomUUID("alert", n), type |-> "diversion", severity |-> "high",
   transaction_id |-> transaction.id, timestamp |-> now,
   distance |-> transaction.diversion_distance, status |-> "active",
   agent_id |-> agentInfo.id]

\* navigator.geolocation success callback of getCurrentLocation
GetCurrentLocationSuccess ==
  /\ geoPending
  /\ geoPending' = FALSE
  /\ currentLocation' = Some(devicePosition)
  /\ UNCHANGED <<now, devicePosition, component, activeTab, isScanning, scannerRef, scanCount,
                 transactions, storage, alerts, scanResult, trackingLog, scanHistory>>
  /\ UNCHANGED <<detectVars, syncVars, parseVars, cameraVars, appVars>>

\* navigator.geolocation error callback of getCurrentLocation
GetCurrentLocationError ==
  /\ geoPending
  /\ geoPending' = FALSE
  /\ UNCHANGED <<now, devicePosition, component, activeTab, currentLocation, isScanning,
                 scannerRef, scanCount, transactions, storage, alerts,
                 scanResult, trackingLog, scanHistory>>
  /\ UNCHANGED <<detectVars, syncVars, parseVars, cameraVars, appVars>>

SetActiveTab(tab) ==
  /\ tab \in Tabs(component)
  /\ activeTab' = tab
  /\ UNCHANGED <<now, devicePosition, component, currentLocation, geoPending, isScanning,
                 scannerRef, scanCount, transactions, storage, alerts,
                 scanResult, trackingLog, scanHistory>>
  /\ UNCHANGED <<detectVars, syncVars, parseVars, cameraVars, appVars>>

\* The scan button of the pickup and delivery tabs while not scanning. The
\* scanner is handed handleScanSuccess of this render: its activeTab,
\* currentLocation and transactions.
StartScanning ==
  /\ activeTab \in ScanTabs(component)
  /\ ~isScanning
  /\ currentLocation /= None
  /\ scannerRef' = Some([activeTab |-> activeTab,
                         currentLocation |-> currentLocation[1],
                         transactions |-> transactions,
                         camera |-> "scanning"])
  /\ isScanning' = TRUE
  /\ scanResult' = None
  /\ UNCHANGED <<now, devicePosition, component, activeTab, currentLocation, geoPending,
                 scanCount, transactions, storage, alerts, trackingLog, scanHistory>>
  /\ UNCHANGED <<detectVars, syncVars, parseVars, cameraVars, appVars>>

\* The scan button while scanning
StopScanning ==
  /\ activeTab \in ScanTabs(component)
  /\ isScanning
  /\ scannerRef' = None
  /\ isScanning' = FALSE
  /\ UNCHANGED <<now, devicePosition, component, activeTab, currentLocation, geoPending,
                 scanCount, transactions, storage, alerts, scanResult,
                 trackingLog, scanHistory>>
  /\ UNCHANGED <<detectVars, syncVars, parseVars, cameraVars, appVars>>

\* scanLoop detects rawData and calls handleScanSuccess once; the loop ends.
HandleScanSuccess(rawData) ==
  /\ component = "agent"
  /\ scannerRef /= None
  /\ scannerRef[1].camera = "scanning"
  /\ scanCount < MaxScans
  /\ \E parsedQR \in {parseQRCode(rawData, now)} :
     LET closure == scannerRef[1]
         location == closure.currentLocation
         n == scanCount + 1
         currentDistrict == detectDistrict(location)
         assignedDistrict == assignedDistrictOf(parsedQR)
         isDiversion == isDiversionOf(currentDistrict, assignedDistrict)
         diversionDistance == diversionDistanceOf(isDiversion, location, assignedDistrict)
         actionType == IF closure.activeTab = "pickup" THEN "pickup" ELSE "delivery"
         custodyRecord == [id |-> randomUUID("custody", n), action |-> actionType,
                           location |-> location, timestamp |-> now,
                           agent_id |-> agentInfo.id]
         additionalData == Some([qrCodeId |-> Get(parsedQR, "id"),
                                 medicineData |-> parsedQR.parsed_data,
                                 latin1 |-> rawData.latin1])
         tamperProofLog ==
           createTamperProofLog(IF actionType = "pickup" THEN "custody_taken"
                                ELSE "delivery_attempt",
                                location, additionalData, randomUUID("log", n))
         existingTransaction == findTransaction(closure.transactions, Get(parsedQR, "id"))
         transaction ==
           buildTransaction(existingTransaction, actionType, parsedQR, n, location,
                            currentDistrict, assignedDistrict, isDiversion,
                            diversionDistance, custodyRecord, tamperProofLog)
     IN /\ scanCount' = n
        /\ now' = now + 1
        /\ geoPending' = TRUE
        /\ IF btoaThrows(additionalData)
           THEN \* createTamperProofLog throws: the catch block, no stopScanning
                /\ scannerRef' = Some([closure EXCEPT !.camera = "detected"])
                /\ UNCHANGED <<isScanning, transactions, storage, alerts,
                               scanResult, scanHistory>>
           ELSE /\ storage' = saveTransaction(storage, transaction)
                /\ transactions' =
                     IF existingTransaction /= None
                     THEN [i \in 1..Len(transactions) |->
                             IF transactions[i].id = transaction.id
                             THEN transaction ELSE transactions[i]]
                     ELSE <<transaction>> \o transactions
                /\ scanResult' = Some([qr |-> rawData.qr,
                                       transaction |-> transaction,
                                       isDiversion |-> isDiversion,
                                       diversionDistance |-> diversionDistance,
                                       actionType |-> actionType])
                /\ alerts' = IF isDiversion
                             THEN <<diversionAlert(transaction, n)>> \o alerts
                             ELSE alerts
                /\ scannerRef' = None
                /\ isScanning' = FALSE
                /\ scanHistory' =
                     Append(scanHistory,
                            [rawData |-> rawData, action |-> actionType,
                             transaction_id |-> transaction.id,
                             isDiversion |-> isDiversion,
                             entry |-> tamperProofLog])
  /\ UNCHANGED <<devicePosition, component, activeTab, currentLocation, trackingLog>>
  /\ UNCHANGED <<detectVars, syncVars, parseVars, cameraVars, appVars>>

\* The transaction the distributor's handleScanSuccess builds
distributionTransaction(parsedQR, n, location, scannedDistrict, assignedDistrict, isDiversion, diversionDistance) ==
  [id |-> randomUUID("txn", n),
   qr_code_id |-> OrElse(Get(parsedQR, "id"), randomUUID("qr", n)),
   medicine_name |-> OrElse(PropString(parsedQR.parsed_data, "medicine_name"),
                            "Unknown Medicine"),
   batch_number |-> OrElse(PropString(parsedQR.parsed_data, "batch_number"),
                           "Unknown Batch"),
   assigned_district |-> assignedDistrict,
   scanned_district |-> scannedDistrict,
   gps_coordinates |-> location,
   scan_timestamp |-> now,
   distributor_id |-> "DIST-001",
   status |-> IF isDiversion THEN "diversion" ELSE "success",
   diversion_distance |-> diversionDistance,
   alert_triggered |-> isDiversion]

distributorAlert(transaction, n) ==
  [id |-> randomUUID("alert", n), type |-> "diversion", severity |-> "high",
   transaction_id |-> transaction.id, timestamp |-> now,
   distance |-> transaction.diversion_distance, status |-> "active"]

\* DistributorDashboard.handleScanSuccess, called once by scanLoop
DistributorHandleScanSuccess(rawData) ==
  /\ component = "distributor"
  /\ scannerRef /= None
  /\ scannerRef[1].camera = "scanning"
  /\ scanCount < MaxScans
  /\ \E parsedQR \in {parseQRCode(rawData, now)} :
     LET closure == scannerRef[1]
         location == closure.currentLocation
         n == scanCount + 1
         scannedDistrict == detectDistrict(location)
         assignedDistrict == assignedDistrictOf(parsedQR)
         isDiversion == isDiversionOf(scannedDistrict, assignedDistrict)
         diversionDistance == diversionDistanceOf(isDiversion, location, assignedDistrict)
         transaction ==
           distributionTransaction(parsedQR, n, location, scannedDistrict,
                                   assignedDistrict, isDiversion, diversionDistance)
     IN /\ scanCount' = n
        /\ now' = now + 1
        /\ geoPending' = TRUE
        /\ storage' = <<transaction>> \o storage
        /\ transactions' = <<transaction>> \o transactions
        /\ scanResult' = Some([qr |-> rawData.qr,
                               transaction |-> transaction,
                               isDiversion |-> isDiversion,
                               diversionDistance |-> diversionDistance])
        /\ alerts' = IF isDiversion
                     THEN <<distributorAlert(transaction, n)>> \o alerts
                     ELSE alerts
        /\ scannerRef' = None
        /\ isScanning' = FALSE
        /\ scanHistory' =
             Append(scanHistory,
                    [rawData |-> rawData, action |-> "scan",
                     transaction_id |-> transaction.id,
                     isDiversion |-> isDiversion])
  /\ UNCHANGED <<devicePosition, component, activeTab, currentLocation, trackingLog>>
  /\ UNCHANGED <<detectVars, syncVars, parseVars, cameraVars, appVars>>

\* The 30 s interval's position callback: createTamperProofLog('location_update')
\* whose result is logged to the console and stored nowhere else.
TrackLocation ==
  /\ component = "agent"
  /\ Len(trackingLog) < MaxTracking
  /\ trackingLog' =
       Append(trackingLog,
              createTamperProofLog("location_update", devicePosition, None,
                                   randomUUID("track", Len(trackingLog) + 1)))
  /\ now' = now + 1
  /\ UNCHANGED <<devicePosition, component, activeTab, currentLocation, geoPending,
                 isScanning, scannerRef, scanCount, transactions, storage,
                 alerts, scanResult, scanHistory>>
  /\ UNCHANGED <<detectVars, syncVars, parseVars, cameraVars, appVars>>

\* A portal after its mount effect: getCurrentLocation requested, stored
\* transactions loaded, sample alerts set, location tracking started.
InitPortal ==
  /\ now = 0
  /\ devicePosition \in GpsPoints
  /\ component \in {"agent", "distributor"}
  /\ activeTab = IF component = "agent" THEN "pickup" ELSE "scan"
  /\ currentLocation = None
  /\ geoPending = TRUE
  /\ isScanning = FALSE
  /\ scannerRef = None
  /\ scanCount = 0
  /\ transactions = <<>>
  /\ storage = <<>>
  /\ alerts = sampleAlerts
  /\ scanResult = None
  /\ trackingLog = <<>>
  /\ scanHistory = <<>>


\* --------------------------------------------------------- scanned strings
\* Largest number of pieces a scanned text is put together from.
MaxPieces == 2

\* The pieces of the scanned texts: the prefixes the patterns test, and
\* bodies that match or fail the patterns and the parsers.
TextPieces ==
  {<<"h", "t", "t", "p", ":", "/", "/">>,
   <<"H", "T", "T", "P", "S", ":", "/", "/">>,
   <<"m", "a", "i", "l", "t", "o", ":">>,
   <<"M", "A", "I", "L", "T", "O", ":">>,
   <<"t", "e", "l", ":">>,
   <<"s", "m", "s", ":">>,
   <<"W", "I", "F", "I", ":">>,
   <<"B", "E", "G", "I", "N", ":", "V", "C", "A", "R", "D">>,
   <<"B", "E", "G", "I", "N", ":", "V", "E", "V", "E", "N", "T">>,
   <<"g", "e", "o", ":">>,
   <<"a", "@", "b", ".", "c">>,
   <<"a", ".", "b">>,
   <<"5">>,
   <<"+", "1", " ", "5">>,
   <<"<", "b", ">">>,
   <<"<", "?", "x", "m", "l">>,
   <<" ">>,
   <<"?", "s", "u", "b", "j", "e", "c", "t", "=", "%", "4", "1", "&", "c", "c", "=", "x">>,
   <<"?", "b", "o", "d", "y", "=", "%">>,
   <<"T", ":", "W", ";", "S", ":", "n", ";", "P", ":", "p", ";", "H", ":", "t", "r", "u", "e", ";">>,
   <<"1", ".", "5", ",", "-", "2", ",", "3", "?", "q">>,
   <<"-", ",", "-">>,
   <<"\n", "F", "N", ":", "x">>,
   <<"\n", "e", "r", "r", "o", "r", ":", "y">>,
   <<"x">>,
   <<"/", "p", "?", "k", "=", "v", "+", "w">>,
   <<"1", "2", "7", ".", "1">>,
   <<"1", ".", "2">>}

\* The texts of n pieces
RECURSIVE TextsOf(_)
TextsOf(n) ==
  IF n = 0 THEN {<<>>}
  ELSE {piece \o text : piece \in TextPieces, text \in TextsOf(n - 1)}

\* The scanned strings that are no JSON text of an object or array
TextStrings ==
  {[json |-> None, text |-> text] : text \in UNION {TextsOf(n) : n \in 0..MaxPieces}}

\* A key that a JSON object does not have
Absent == [absent |-> TRUE]

MedicineData ==
  JObj([medicine_id |-> JStr("MED-1"), medicine_name |-> JStr("Aspirin"),
        batch_number |-> JStr("BATCH-1"), expiry_date |-> JStr("2030-01-01")])

\* The values the keys of a scanned JSON object take
FieldChoices ==
  [type : {Absent, JStr("medicine_tracking"), JStr("other")},
   data : {Absent, JNull, JNum(5), MedicineData,
           JObj([medicine_id |-> JStr("MED-1"), medicine_name |-> JStr(""),
                 batch_number |-> JStr("BATCH-1")]),
           JObj([medicine_name |-> JStr("Aspirin"),
                 expiry_date |-> JStr("2020-01-01")])},
   layers : {Absent, JArr(<<>>), JStr("x"), JArr(<<JNull>>),
             JArr(<<JObj([data |-> JStr("d"), checksum |-> JStr("c")])>>),
             JArr(<<JNum(1), JObj([dependencies |-> JArr(<<JNum(0)>>)])>>)},
   error : {Absent, JStr(""), JStr("x"), JNull},
   metadata : {Absent, JObj([inner |-> JObj(NoFields)])}]

\* The JSON object with the chosen fields
objectOf(choice) ==
  JObj([k \in {q \in DOMAIN choice : choice[q] /= Absent} |-> choice[k]])

\* The scanned strings that are JSON text of an object or an array
JsonStrings ==
  {[json |-> Some(objectOf(choice))] : choice \in FieldChoices}
    \cup {[json |-> Some(JArr(<<>>))],
          [json |-> Some(JArr(<<JNum(1), JStr("x")>>))],
          [json |-> Some(JArr(<<JObj([error |-> JStr("x")])>>))]}

RawStrings == TextStrings \cup JsonStrings

\* The days at which a string is parsed: before and after the expiry dates
Days == {0, 1, 4000}

InitParse ==
  /\ scanned \in RawStrings
  /\ parseDay \in Days
  /\ parsedRecord = None
  /\ previousRecord = None

\* QRCodeParser.parseQRCode(scanned)
ParseQRCode ==
  /\ parsedRecord' = Some(parseQRCode(scanned, parseDay))
  /\ previousRecord' = parsedRecord
  /\ UNCHANGED <<scanned, parseDay>>
  /\ UNCHANGED <<portalVars, detectVars, syncVars, cameraVars, appVars>>

\* Time passes between two calls
TimePasses(day) ==
  /\ day > parseDay
  /\ parseDay' = day
  /\ UNCHANGED <<scanned, parsedRecord, previousRecord>>
  /\ UNCHANGED <<portalVars, detectVars, syncVars, cameraVars, appVars>>
\* ------------------------------------------------------------------ camera
\* Largest number of QRScanner objects the portal creates.
MaxScanners == 2

\* The two QRScanner classes of the sources: utils/qrScanner.ts and the one
\* of Scanner.tsx, which adds the rejections of the video promise and
\* cancelAnimationFrame.
ScannerSources == {"utils", "scanner"}

\* A QRScanner after its constructor and the first statements of
\* startScanning: awaiting getUserMedia, no stream, not scanning, no frame
\* requested. live tells whether the tracks of the stream it obtained are
\* open; ended tells how the portal's scan session of the object ended.
newQRScanner ==
  [pc |-> "getUserMedia", live |-> FALSE, scanning |-> FALSE, frame |-> FALSE,
   ended |-> "no"]

\* QRScanner.stopScanning; cancelAnimationFrame in the class of Scanner.tsx
\* only.
scannerStopped(scanner, source) ==
  [scanner EXCEPT !.scanning = FALSE,
                  !.live = FALSE,
                  !.frame = IF source = "scanner" THEN FALSE ELSE @]

\* The portal's stopScanning() on the scanner objects: the object scannerRef
\* holds is stopped, how tells the way its session ended.
portalStopped(objects, current, source, how) ==
  IF current = 0 THEN objects
  ELSE [objects EXCEPT ![current] =
          [scannerStopped(@, source) EXCEPT !.ended = IF @ = "no" THEN how ELSE @]]

\* QRScanner.scanLoop of object i once, with what it finds in the frame:
\* "nothing", a code whose processing succeeds ("code"), or a code whose
\* processing throws inside handleScanSuccess ("throws"). The objects after
\* the call, the portal's callbacks included.
scanLoop(objects, i, current, source, frameHolds) ==
  IF ~objects[i].scanning
  THEN [objects EXCEPT ![i].frame = FALSE]
  ELSE CASE frameHolds = "nothing" -> [objects EXCEPT ![i].frame = TRUE]
         [] frameHolds = "throws" ->
              [objects EXCEPT ![i].frame = FALSE, ![i].pc = "returned",
                              ![i].ended = "processError"]
         [] OTHER ->
              portalStopped([objects EXCEPT ![i].frame = FALSE, ![i].pc = "returned",
                                            ![i].ended = "success"],
                            current, source, "success")

\* Whether scanLoop of object i ends in the portal's stopScanning()
stopsPortal(objects, i, frameHolds) ==
  objects[i].scanning /\ frameHolds = "code"

FrameContents == {"nothing", "code", "throws"}

InitCamera ==
  /\ mounted = TRUE
  /\ scannerSource \in ScannerSources
  /\ scannerObjects = <<>>
  /\ currentScanner = 0
  /\ scanningShown = FALSE
  /\ videoSource = 0

\* AgentPortal.startScanning up to the await of QRScanner.startScanning
CameraStart ==
  /\ mounted
  /\ ~scanningShown
  /\ Len(scannerObjects) < MaxScanners
  /\ scannerObjects' = Append(scannerObjects, newQRScanner)
  /\ currentScanner' = Len(scannerObjects) + 1
  /\ scanningShown' = TRUE
  /\ UNCHANGED <<mounted, scannerSource, videoSource>>
  /\ UNCHANGED <<portalVars, detectVars, syncVars, parseVars, appVars>>

\* getUserMedia resolves: the stream is stored and set on the video element,
\* whose onloadedmetadata handler is now the one of object i.
UserMediaResolves(i) ==
  /\ i \in 1..Len(scannerObjects)
  /\ scannerObjects[i].pc = "getUserMedia"
  /\ scannerObjects' = [scannerObjects EXCEPT ![i].pc = "video", ![i].live = TRUE]
  /\ videoSource' = i
  /\ UNCHANGED <<mounted, scannerSource, currentScanner, scanningShown>>
  /\ UNCHANGED <<portalVars, detectVars, syncVars, parseVars, appVars>>

\* getUserMedia rejects: the catch block calls onError, handleScanError logs.
UserMediaRejects(i) ==
  /\ i \in 1..Len(scannerObjects)
  /\ scannerObjects[i].pc = "getUserMedia"
  /\ scannerObjects' = [scannerObjects EXCEPT ![i].pc = "returned",
                                              ![i].ended = IF @ = "no" THEN "initError" ELSE @]
  /\ UNCHANGED <<mounted, scannerSource, currentScanner, scanningShown, videoSource>>
  /\ UNCHANGED <<portalVars, detectVars, syncVars, parseVars, appVars>>

\* loadedmetadata fires for the stream of object i and play() succeeds:
\* scanning is set and scanLoop runs once.
VideoPlays(i, frameHolds) ==
  /\ i \in 1..Len(scannerObjects)
  /\ scannerObjects[i].pc = "video"
  /\ videoSource = i
  /\ LET playing == [scannerObjects EXCEPT ![i].pc = "scanLoop", ![i].scanning = TRUE]
     IN /\ scannerObjects' = scanLoop(playing, i, currentScanner, scannerSource, frameHolds)
        /\ currentScanner' = IF stopsPortal(playing, i, frameHolds) THEN 0 ELSE currentScanner
        /\ scanningShown' = IF stopsPortal(playing, i, frameHolds) THEN FALSE ELSE scanningShown
        /\ videoSource' = IF stopsPortal(playing, i, frameHolds) /\ currentScanner /= 0
                          THEN 0 ELSE videoSource
  /\ UNCHANGED <<mounted, scannerSource>>
  /\ UNCHANGED <<portalVars, detectVars, syncVars, parseVars, appVars>>

\* The video promise of the class of Scanner.tsx rejects (play() fails, the
\* video element reports an error, or the 10 s timeout fires): the catch
\* block calls onError and leaves the stream as it is.
VideoFails(i) ==
  /\ scannerSource = "scanner"
  /\ i \in 1..Len(scannerObjects)
  /\ scannerObjects[i].pc = "video"
  /\ scannerObjects' = [scannerObjects EXCEPT ![i].pc = "returned",
                                              ![i].ended = IF @ = "no" THEN "initError" ELSE @]
  /\ UNCHANGED <<mounted, scannerSource, currentScanner, scanningShown, videoSource>>
  /\ UNCHANGED <<portalVars, detectVars, syncVars, parseVars, appVars>>

\* The requested animation frame of object i fires: scanLoop runs once.
FrameFires(i, frameHolds) ==
  /\ i \in 1..Len(scannerObjects)
  /\ scannerObjects[i].frame
  /\ scannerObjects' = scanLoop(scannerObjects, i, currentScanner, scannerSource, frameHolds)
  /\ currentScanner' = IF stopsPortal(scannerObjects, i, frameHolds) THEN 0 ELSE currentScanner
  /\ scanningShown' = IF stopsPortal(scannerObjects, i, frameHolds) THEN FALSE ELSE scanningShown
  /\ videoSource' = IF stopsPortal(scannerObjects, i, frameHolds) /\ currentScanner /= 0
                    THEN 0 ELSE videoSource
  /\ UNCHANGED <<mounted, scannerSource>>
  /\ UNCHANGED <<portalVars, detectVars, syncVars, parseVars, appVars>>

\* The stop button: AgentPortal.stopScanning
CameraStop ==
  /\ mounted
  /\ scanningShown
  /\ scannerObjects' = portalStopped(scannerObjects, currentScanner, scannerSource, "stop")
  /\ videoSource' = IF currentScanner /= 0 THEN 0 ELSE videoSource
  /\ currentScanner' = 0
  /\ scanningShown' = FALSE
  /\ UNCHANGED <<mounted, scannerSource>>
  /\ UNCHANGED <<portalVars, detectVars, syncVars, parseVars, appVars>>

\* The portal is unmounted: its mount effect returns no cleanup function, so
\* nothing is stopped.
Unmount ==
  /\ mounted
  /\ mounted' = FALSE
  /\ UNCHANGED <<scannerSource, scannerObjects, currentScanner, scanningShown, videoSource>>
  /\ UNCHANGED <<portalVars, detectVars, syncVars, parseVars, appVars>>

\* ------------------------------------------------------- Scanner component
\* Largest number of scan sessions (QRScanner objects) of the component.
MaxSessions == 3

\* stopScanning of the component, on its QRScanner objects
viewStopped(scanners, current) ==
  IF current = 0 THEN scanners
  ELSE [scanners EXCEPT ![current] = scannerStopped(@, "utils")]

\* The button while it reads 'Start Scanning': startScanning up to the await
ViewStart ==
  /\ ~viewIsScanning
  /\ Len(viewScanners) < MaxSessions
  /\ viewScanners' = Append(viewScanners, newQRScanner)
  /\ viewScannerRef' = Len(viewScanners) + 1
  /\ scanStatus' = "scanning"
  /\ viewIsScanning' = TRUE
  /\ UNCHANGED <<autoStops, statusResets>>
  /\ UNCHANGED <<portalVars, detectVars, syncVars, parseVars, cameraVars, storeVars, pollVars>>

\* The button while it reads 'Stop Scanning': stopScanning
ViewStop ==
  /\ viewIsScanning
  /\ viewScanners' = viewStopped(viewScanners, viewScannerRef)
  /\ viewScannerRef' = 0
  /\ viewIsScanning' = FALSE
  /\ scanStatus' = "idle"
  /\ UNCHANGED <<autoStops, statusResets>>
  /\ UNCHANGED <<portalVars, detectVars, syncVars, parseVars, cameraVars, storeVars, pollVars>>

\* getUserMedia of scanner i resolves: the stream is stored
ViewUserMediaResolves(i) ==
  /\ i \in 1..Len(viewScanners)
  /\ viewScanners[i].pc = "getUserMedia"
  /\ viewScanners' = [viewScanners EXCEPT ![i].pc = "video", ![i].live = TRUE]
  /\ UNCHANGED <<scanStatus, viewIsScanning, viewScannerRef, autoStops, statusResets>>
  /\ UNCHANGED <<portalVars, detectVars, syncVars, parseVars, cameraVars, storeVars, pollVars>>

\* getUserMedia of scanner i rejects: the catch block of
\* QRScanner.startScanning calls onError, which is handleScanError.
ViewUserMediaRejects(i) ==
  /\ i \in 1..Len(viewScanners)
  /\ viewScanners[i].pc = "getUserMedia"
  /\ viewScanners' = [viewScanners EXCEPT ![i].pc = "returned", ![i].ended = "initError"]
  /\ scanStatus' = "error"
  /\ statusResets' = statusResets \cup {i}
  /\ UNCHANGED <<viewIsScanning, viewScannerRef, autoStops>>
  /\ UNCHANGED <<portalVars, detectVars, syncVars, parseVars, cameraVars, storeVars, pollVars>>

\* loadedmetadata fires for the stream of scanner i (not after a stop, which
\* takes the stream from the video element): scanning = true, the loop runs.
ViewVideoPlays(i) ==
  /\ i \in 1..Len(viewScanners)
  /\ viewScanners[i].pc = "video"
  /\ viewScanners[i].live
  /\ viewScanners' = [viewScanners EXCEPT ![i].pc = "scanLoop", ![i].scanning = TRUE,
                                          ![i].frame = TRUE]
  /\ UNCHANGED <<scanStatus, viewIsScanning, viewScannerRef, autoStops, statusResets>>
  /\ UNCHANGED <<portalVars, detectVars, syncVars, parseVars, cameraVars, storeVars, pollVars>>

\* scanLoop of scanner i detects a code and calls handleScanSuccess: the
\* status is set, onScan is called, the 2 s timer is set, the loop returns.
ViewScanSuccess(i) ==
  /\ i \in 1..Len(viewScanners)
  /\ viewScanners[i].frame
  /\ viewScanners[i].scanning
  /\ viewScanners' = [viewScanners EXCEPT ![i].pc = "returned", ![i].frame = FALSE,
                                          ![i].ended = "success"]
  /\ scanStatus' = "success"
  /\ autoStops' = autoStops \cup {i}
  /\ UNCHANGED <<viewIsScanning, viewScannerRef, statusResets>>
  /\ UNCHANGED <<portalVars, detectVars, syncVars, parseVars, cameraVars, storeVars, pollVars>>

\* The 2 s timer set by handleScanSuccess for scanner i fires: stopScanning()
AutoStopFires(i) ==
  /\ i \in autoStops
  /\ autoStops' = autoStops \ {i}
  /\ viewScanners' = viewStopped(viewScanners, viewScannerRef)
  /\ viewScannerRef' = 0
  /\ viewIsScanning' = FALSE
  /\ scanStatus' = "idle"
  /\ UNCHANGED statusResets
  /\ UNCHANGED <<portalVars, detectVars, syncVars, parseVars, cameraVars, storeVars, pollVars>>

\* The 3 s timer set by handleScanError for scanner i fires
StatusResetFires(i) ==
  /\ i \in statusResets
  /\ statusResets' = statusResets \ {i}
  /\ scanStatus' = "scanning"
  /\ UNCHANGED <<viewIsScanning, viewScannerRef, viewScanners, autoStops>>
  /\ UNCHANGED <<portalVars, detectVars, syncVars, parseVars, cameraVars, storeVars, pollVars>>

\* ------------------------------------------------- ArduinoIntegration polls
\* Largest number of ArduinoCloudService objects, of testConnection calls and
\* of polls of one loop.
MaxServices == 2
MaxTests == 3
MaxPolls == 1

\* testConnection(serviceInstance) up to its await
testStarted(tests, count, currentService) ==
  tests \cup {[test |-> count + 1, service |-> currentService]}

\* The save button: saveConfiguration, which ends in testConnection(newService)
SaveConfiguration(thingId) ==
  /\ Len(services) < MaxServices
  /\ testCount < MaxTests
  /\ services' = Append(services, [thingId |-> thingId])
  /\ service' = Len(services) + 1
  /\ pendingTests' = testStarted(pendingTests, testCount, Len(services) + 1)
  /\ testCount' = testCount + 1
  /\ connectionStatus' = "connecting"
  /\ UNCHANGED pollLoops
  /\ UNCHANGED <<portalVars, detectVars, syncVars, parseVars, cameraVars, storeVars, viewVars>>

\* The test button: testConnection() on the service of the state
TestConnection ==
  /\ service /= 0
  /\ testCount < MaxTests
  /\ pendingTests' = testStarted(pendingTests, testCount, service)
  /\ testCount' = testCount + 1
  /\ connectionStatus' = "connecting"
  /\ UNCHANGED <<services, service, pollLoops>>
  /\ UNCHANGED <<portalVars, detectVars, syncVars, parseVars, cameraVars, storeVars, viewVars>>

\* currentService.testConnection() of a pending call resolves, and with
\* success and a thing id getThingStatus() too: subscribeToUpdates starts a
\* poll loop on currentService. statusOk tells whether getThingStatus resolves.
TestConnectionResolves(pending, success, statusOk) ==
  /\ pending \in pendingTests
  /\ pendingTests' = pendingTests \ {pending}
  /\ connectionStatus' =
       IF success /\ (services[pending.service].thingId => statusOk)
       THEN "connected" ELSE "error"
  /\ pollLoops' =
       IF success /\ services[pending.service].thingId /\ statusOk
       THEN Append(pollLoops, [service |-> pending.service, polls |-> 0])
       ELSE pollLoops
  /\ UNCHANGED <<services, service, testCount>>
  /\ UNCHANGED <<portalVars, detectVars, syncVars, parseVars, cameraVars, storeVars, viewVars>>

\* The 5 s timer of poll loop k fires: poll() asks getThingStatus of its
\* service and sets the timer again.
Poll(k) ==
  /\ k \in DOMAIN pollLoops
  /\ pollLoops[k].polls < MaxPolls
  /\ pollLoops' = [pollLoops EXCEPT ![k].polls = @ + 1]
  /\ UNCHANGED <<services, service, pendingTests, testCount, connectionStatus>>
  /\ UNCHANGED <<portalVars, detectVars, syncVars, parseVars, cameraVars, storeVars, viewVars>>

\* ------------------------------------------- district resolution on its own
\* Largest number of districts in a registry.
MaxRegions == 3
\* Largest radius of a district, in km.
MaxRadiusKm == 2

\* Distances from a point to a centre, in metres: every kilometre up to
\* beyond the largest radius.
Distances == {1000 * k : k \in 0..(MaxRadiusKm + 1)}

\* The radii of the registries of up to MaxRegions districts
Registries ==
  UNION {[1..n -> 0..MaxRadiusKm] : n \in 0..MaxRegions}

regionName(i) == "R" \o ToString(i)

\* A registry with distinct names and a GPS point, given by its distances to
\* the centres; detectDistrict not called yet.
InitDetect ==
  /\ \E radii \in Registries :
       /\ registry = [i \in DOMAIN radii |->
                        [name |-> regionName(i), radius |-> radii[i]]]
       /\ pointDistances \in [DOMAIN radii -> Distances]
  /\ detected = None

\* detectDistrict(gps) is called for the point.
DetectDistrict ==
  /\ detected' = Some(detectDistrictIn(registry, pointDistances))
  /\ UNCHANGED <<registry, pointDistances>>
  /\ UNCHANGED <<portalVars, syncVars, parseVars, cameraVars, appVars>>

\* The point moves: its distance to the centre of district i becomes d.
MovePoint(i, d) ==
  /\ i \in DOMAIN registry
  /\ pointDistances[i] /= d
  /\ pointDistances' = [pointDistances EXCEPT ![i] = d]
  /\ detected' = None
  /\ UNCHANGED registry
  /\ UNCHANGED <<portalVars, syncVars, parseVars, cameraVars, appVars>>

\* ------------------------------------------------------ Arduino Cloud sync
\* const batchSize = 10 of batchSync
batchSize == 10
\* Largest number of records handed to batchSync.
MaxRecords == 25
\* Largest number of failing responses in a behaviour.
MaxFaults == 1
\* The network answers a request of one of the MaxReorder lowest records that
\* have a request in flight.
MaxReorder == 2
\* Largest number of authenticate() calls by callers other than batchSync.
MaxAuthCalls == 1

\* The record counts tried: none, one, a full batch, one more, the largest.
RecordCounts == {0, 1, batchSize, batchSize + 1, MaxRecords}

\* The inputs of batchSync: records with distinct ids (the id of the record
\* at index k is k), and one input with the same id twice.
Inputs == {[k \in 1..n |-> k] : n \in RecordCounts} \cup {<<1, 1>>}

\* expires_in of an authentication response, in seconds: the inter-batch
\* delay, or an hour.
ExpiresIn == {1, 3600}

\* What the network answers to a fetch of the service: "not_ok" of the auth
\* fetch stands for every way authenticate() throws, "network_error" of the
\* sync fetch for fetch or response.json() throwing.
AuthResponses == {"ok", "not_ok"}
SyncResponses == {"success", "server_error", "not_success", "network_error"}

\* ensureValidToken without the expiry test: a token once stored is used for
\* ever. C11 tells the two apart.
tokenValidIgnoringExpiry(token, expiry, t) ==
  ~(token = None)

\* ensureValidToken's test at time t: TRUE if no authenticate() is needed
tokenValid(token, expiry, t) ==
  ~(token = None \/ expiry = None \/ expiry[1] <= t)

\* syncQRCodeData without its try/catch: a throw rejects the promise. C10
\* tells the two apart.
syncQRCodeDataNoCatch(step) ==
  CASE step = "auth_throws" -> None
    [] step = "network_error" -> None
    [] step = "success" -> Some("synced")
    [] step = "server_error" -> Some("failed")
    [] OTHER -> Some("partial")

\* What the promise of syncQRCodeData settles to after the step that ended
\* it: Some(status) if it is fulfilled, None if it is rejected. The steps are
\* "auth_throws" (ensureValidToken threw), and the responses of the sync
\* fetch, "network_error" being a throw of fetch or of response.json().
syncQRCodeData(step) ==
  CASE step = "auth_throws" -> Some("failed")
    [] step = "network_error" -> Some("failed")
    [] step = "success" -> Some("synced")
    [] step = "server_error" -> Some("failed")
    [] OTHER -> Some("partial")

\* The await of Promise.any in place of Promise.allSettled: over as soon as
\* one callback promise is settled. C9 tells the two apart.
awaitBatchAny(cbs, first, last) ==
  IF \E k \in first..last : cbs[k] \in {"fulfilled", "rejected"}
  THEN "resolved" ELSE "pending"

\* await Promise.allSettled(promises) for the batch first..last: "pending"
\* until every callback promise is settled, then "resolved"; it never gives
\* "rejected".
awaitBatch(cbs, first, last) ==
  IF \A k \in first..last : cbs[k] \in {"fulfilled", "rejected"}
  THEN "resolved" ELSE "pending"

\* The delay test with <= : a delay after the last full batch too. C8 tells
\* the two apart.
moreBatchesInclusive(i, length) == i + batchSize <= length

\* i + batchSize < qrCodes.length
moreBatches(i, length) == i + batchSize < length

\* results.set(id, status)
MapSet(map, id, status) ==
  [k \in DOMAIN map \cup {id} |-> IF k = id THEN status ELSE map[k]]

\* qrCodes.slice(i, i + batchSize) as the indices <<first, last>> (1-based)
slice(i, length) == <<i + 1, Min(i + batchSize, length)>>

\* The requests the callbacks of the batch first..last send before any
\* response is handled: each record's syncQRCodeData sends the auth fetch if
\* the token is not valid and its sync fetch otherwise.
batchRequests(first, last, valid) ==
  {[record |-> k, kind |-> IF valid THEN "sync" ELSE "auth"] : k \in first..last}

\* One iteration of the for loop of batchSync up to its await, for loop
\* variable i at time t.
StartBatch(codes, i, cbs, calls, pubs, t) ==
  LET first == slice(i, Len(codes))[1]
      last == slice(i, Len(codes))[2]
      valid == tokenValid(accessToken, tokenExpiry, t)
  IN /\ loopIndex' = i
     /\ pc' = "batch"
     /\ callbacks' = [k \in 1..Len(codes) |->
                        IF k \in first..last THEN "pending" ELSE cbs[k]]
     /\ inFlight' = inFlight \cup batchRequests(first, last, valid)
     /\ batches' = Append(batches, <<first, last>>)
     /\ syncCalls' = [k \in 1..Len(codes) |->
                        IF k \in first..last THEN calls[k] + 1 ELSE calls[k]]
     /\ publishes' = [k \in 1..Len(codes) |->
                        IF k \in first..last /\ valid
                        THEN pubs[k] + 1 ELSE pubs[k]]

InitSync ==
  /\ clock = 0
  /\ accessToken = None
  /\ tokenExpiry = None
  /\ qrCodes = <<>>
  /\ pc = "idle"
  /\ loopIndex = 0
  /\ callbacks = <<>>
  /\ inFlight = {}
  /\ results = <<>>
  /\ batches = <<>>
  /\ delays = 0
  /\ syncCalls = <<>>
  /\ publishes = <<>>
  /\ settledBy = <<>>
  /\ authCalls = 0
  /\ faults = 0

\* authenticate() called by another caller (testConnection) and completed
\* before batchSync is called: the token is stored, or the call throws.
Authenticate(response, expiresIn) ==
  /\ pc = "idle"
  /\ authCalls < MaxAuthCalls
  /\ authCalls' = authCalls + 1
  /\ IF response = "ok"
     THEN /\ accessToken' = Some("token")
          /\ tokenExpiry' = Some(clock + expiresIn)
          /\ UNCHANGED faults
     ELSE /\ faults < MaxFaults
          /\ faults' = faults + 1
          /\ UNCHANGED <<accessToken, tokenExpiry>>
  /\ UNCHANGED <<clock, qrCodes, pc, loopIndex, inFlight, callbacks, results,
                 batches, delays, syncCalls, publishes, settledBy>>
  /\ UNCHANGED <<portalVars, detectVars, parseVars, cameraVars, appVars>>

\* batchSync(codes) up to its first await: the first batch is started, or the
\* empty map is returned.
BatchSync(codes) ==
  /\ pc = "idle"
  /\ qrCodes' = codes
  /\ results' = <<>>
  /\ settledBy' = [k \in 1..Len(codes) |-> "none"]
  /\ IF Len(codes) = 0
     THEN /\ pc' = "returned"
          /\ callbacks' = <<>>
          /\ syncCalls' = <<>>
          /\ publishes' = <<>>
          /\ UNCHANGED <<loopIndex, inFlight, batches>>
     ELSE StartBatch(codes, 0, [k \in 1..Len(codes) |-> "unstarted"],
                     [k \in 1..Len(codes) |-> 0], [k \in 1..Len(codes) |-> 0],
                     clock)
  /\ UNCHANGED <<clock, accessToken, tokenExpiry, delays, authCalls, faults>>
  /\ UNCHANGED <<portalVars, detectVars, parseVars, cameraVars, appVars>>

\* The requests the network may answer next: those of the MaxReorder lowest
\* records with a request in flight.
Answerable ==
  {r \in inFlight :
     Cardinality({q \in inFlight : q.record < r.record}) < MaxReorder}

\* The callback of record settles after step: results.set unless
\* syncQRCodeData rejected, then batchSync continues if its await is over:
\* it sets the delay timer or leaves the loop and returns.
Settle(record, step, remaining) ==
  LET outcome == syncQRCodeData(step)
      cbs == [callbacks EXCEPT ![record] =
                IF outcome = None THEN "rejected" ELSE "fulfilled"]
      current == slice(loopIndex, Len(qrCodes))
      awaited == awaitBatch(cbs, current[1], current[2])
  IN /\ callbacks' = cbs
     /\ inFlight' = remaining
     /\ settledBy' = [settledBy EXCEPT ![record] = step]
     /\ results' = IF outcome = None THEN results
                   ELSE MapSet(results, qrCodes[record], outcome[1])
     /\ pc' = IF pc = "batch" /\ awaited /= "pending"
              THEN IF awaited = "rejected" THEN "rejected"
                   ELSE IF moreBatches(loopIndex, Len(qrCodes)) THEN "delay"
                   ELSE "returned"
              ELSE pc

\* The response to the auth fetch of a record arrives: authenticate() stores
\* the token or throws; syncQRCodeData then sends the record's sync fetch or
\* returns FAILED from its catch block.
AuthResponse(request, response, expiresIn) ==
  /\ request \in inFlight
  /\ request.kind = "auth"
  /\ LET record == request.record
         remaining == inFlight \ {request}
     IN IF response = "ok"
        THEN /\ accessToken' = Some("token")
             /\ tokenExpiry' = Some(clock + expiresIn)
             /\ inFlight' = remaining \cup {[record |-> record, kind |-> "sync"]}
             /\ publishes' = [publishes EXCEPT ![record] = @ + 1]
             /\ UNCHANGED <<callbacks, settledBy, results, pc, faults>>
        ELSE /\ faults < MaxFaults
             /\ faults' = faults + 1
             /\ Settle(record, "auth_throws", remaining)
             /\ UNCHANGED <<accessToken, tokenExpiry, publishes>>
  /\ UNCHANGED <<clock, qrCodes, loopIndex, batches, delays, syncCalls, authCalls>>
  /\ UNCHANGED <<portalVars, detectVars, parseVars, cameraVars, appVars>>

\* The response to a sync fetch arrives (or the fetch fails).
SyncResponse(request, response) ==
  /\ request \in inFlight
  /\ request.kind = "sync"
  /\ response /= "success" => faults < MaxFaults
  /\ faults' = IF response /= "success" THEN faults + 1 ELSE faults
  /\ Settle(request.record, response, inFlight \ {request})
  /\ UNCHANGED <<clock, accessToken, tokenExpiry, qrCodes, loopIndex, batches,
                 delays, syncCalls, publishes, authCalls>>
  /\ UNCHANGED <<portalVars, detectVars, parseVars, cameraVars, appVars>>

\* The 1000 ms timer fires: i += batchSize, then the loop test i < length
\* starts the next batch or ends the loop.
DelayElapsed ==
  /\ pc = "delay"
  /\ clock' = clock + 1
  /\ delays' = delays + 1
  /\ IF loopIndex + batchSize < Len(qrCodes)
     THEN StartBatch(qrCodes, loopIndex + batchSize, callbacks, syncCalls,
                     publishes, clock + 1)
     ELSE /\ loopIndex' = loopIndex + batchSize
          /\ pc' = "returned"
          /\ UNCHANGED <<callbacks, inFlight, batches, syncCalls, publishes>>
  /\ UNCHANGED <<accessToken, tokenExpiry, qrCodes, results, settledBy,
                 authCalls, faults>>
  /\ UNCHANGED <<portalVars, detectVars, parseVars, cameraVars, appVars>>

\* ---------------------------------------------------------- specifications
\* No portal with a camera
NoCamera ==
  /\ mounted = FALSE
  /\ scannerSource = "utils"
  /\ scannerObjects = <<>>
  /\ currentScanner = 0
  /\ scanningShown = FALSE
  /\ videoSource = 0

vars == <<portalVars, detectVars, syncVars, parseVars, cameraVars, appVars>>

\* The parts a specification leaves alone: no portal mounted, no
\* detectDistrict call on a registry of its own, a service never used.
NoPortal ==
  /\ now = 0
  /\ devicePosition = CHOOSE p \in GpsPoints : detectDistrict(p) = "Unknown"
  /\ component = "none"
  /\ activeTab = "none"
  /\ currentLocation = None
  /\ geoPending = FALSE
  /\ isScanning = FALSE
  /\ scannerRef = None
  /\ scanCount = 0
  /\ transactions = <<>>
  /\ storage = <<>>
  /\ alerts = <<>>
  /\ scanResult = None
  /\ trackingLog = <<>>
  /\ scanHistory = <<>>

NoDetect ==
  /\ registry = <<>>
  /\ pointDistances = <<>>
  /\ detected = None

NoParse ==
  /\ scanned = None
  /\ parseDay = 0
  /\ parsedRecord = None
  /\ previousRecord = None

\* The portals: one agent or distributor portal after its mount.
Init == InitPortal /\ NoDetect /\ InitSync /\ NoParse /\ NoCamera /\ NoApp

Next ==
  \/ GetCurrentLocationSuccess
  \/ GetCurrentLocationError
  \/ \E tab \in {"pickup", "delivery", "custody", "scan", "transactions"} :
       SetActiveTab(tab)
  \/ StartScanning
  \/ StopScanning
  \/ \E rawData \in QRPayloads : HandleScanSuccess(rawData)
  \/ \E rawData \in QRPayloads : DistributorHandleScanSuccess(rawData)
  \/ TrackLocation

Spec == Init /\ [][Next]_vars

\* The portal whose timers, callbacks and user keep going: some step is taken
\* as long as one is possible, and the 30 s interval fires while it can.
SpecTracking == Init /\ [][Next]_vars /\ WF_vars(Next) /\ WF_vars(TrackLocation)

\* detectDistrict over every small registry, the point moving between calls.
DetectInit == NoPortal /\ InitDetect /\ InitSync /\ NoParse /\ NoCamera /\ NoApp

DetectNext ==
  \/ DetectDistrict
  \/ \E i \in 1..MaxRegions, d \in Distances : MovePoint(i, d)

SpecDetect == DetectInit /\ [][DetectNext]_vars

\* One ArduinoCloudService and one batchSync call on it.
SyncInit == NoPortal /\ NoDetect /\ InitSync /\ NoParse /\ NoCamera /\ NoApp

SyncNext ==
  \/ \E response \in AuthResponses, expiresIn \in ExpiresIn :
       Authenticate(response, expiresIn)
  \/ \E codes \in Inputs : BatchSync(codes)
  \/ \E request \in Answerable, response \in AuthResponses, expiresIn \in ExpiresIn :
       AuthResponse(request, response, expiresIn)
  \/ \E request \in Answerable, response \in SyncResponses :
       SyncResponse(request, response)
  \/ DelayElapsed

SpecSync == SyncInit /\ [][SyncNext]_vars

\* parseQRCode on every scanned string of RawStrings, at changing times.
ParseInit == NoPortal /\ NoDetect /\ InitSync /\ InitParse /\ NoCamera /\ NoApp

ParseNext ==
  \/ ParseQRCode
  \/ \E day \in Days : TimePasses(day)

SpecParse == ParseInit /\ [][ParseNext]_vars

\* The portal's scan button and camera: QRScanner objects started, stopped and
\* left behind, with either QRScanner class.
CameraInit == NoPortal /\ NoDetect /\ InitSync /\ NoParse /\ InitCamera /\ NoApp

CameraNext ==
  \/ CameraStart
  \/ \E i \in 1..MaxScanners : UserMediaResolves(i)
  \/ \E i \in 1..MaxScanners : UserMediaRejects(i)
  \/ \E i \in 1..MaxScanners, frameHolds \in FrameContents : VideoPlays(i, frameHolds)
  \/ \E i \in 1..MaxScanners : VideoFails(i)
  \/ \E i \in 1..MaxScanners, frameHolds \in FrameContents : FrameFires(i, frameHolds)
  \/ CameraStop
  \/ Unmount

SpecCamera == CameraInit /\ [][CameraNext]_vars

\* ---------------------------------------------------------------------------
\* The agent view leaving the screen.  The mount effect (AgentPortal.tsx
\* 132-137) calls startLocationTracking() and returns nothing, so React has no
\* cleanup to run at unmount: buttons and tabs are gone with the view, the
\* interval created at 183 stays registered with the window.
TeardownInit == InitPortal /\ NoDetect /\ InitSync /\ NoParse /\ InitCamera /\ NoApp

TeardownNext ==
  \/ mounted /\ Next
  \/ Unmount
  \/ ~mounted /\ TrackLocation

SpecTeardown == TeardownInit /\ [][TeardownNext]_vars

\* The scanner application's record store: users sign up, in and out, and the
\* signed-in user inserts, updates and deletes records.
StoreInit == NoPortal /\ NoDetect /\ InitSync /\ NoParse /\ NoCamera /\ NoApp

StoreNext ==
  \/ \E email \in Emails : SignIn(email)
  \/ \E email \in Emails : SignUp(email)
  \/ SignOut
  \/ \E syncStatus \in {"not_synced"} : InsertQRCode(syncStatus)
  \/ \E id \in QrIds, syncStatus \in SyncStatuses : UpdateSyncStatus(id, syncStatus)
  \/ \E id \in QrIds : DeleteQRCode(id)

SpecStore == StoreInit /\ [][StoreNext]_vars

\* The Scanner component: its button, the camera and the timers it sets.
ViewInit == NoPortal /\ NoDetect /\ InitSync /\ NoParse /\ NoCamera /\ NoApp

ViewNext ==
  \/ ViewStart
  \/ ViewStop
  \/ \E i \in 1..MaxSessions : ViewUserMediaResolves(i)
  \/ \E i \in 1..MaxSessions : ViewUserMediaRejects(i)
  \/ \E i \in 1..MaxSessions : ViewVideoPlays(i)
  \/ \E i \in 1..MaxSessions : ViewScanSuccess(i)
  \/ \E i \in 1..MaxSessions : AutoStopFires(i)
  \/ \E i \in 1..MaxSessions : StatusResetFires(i)

SpecView == ViewInit /\ [][ViewNext]_vars

\* The ArduinoIntegration component: configurations saved, connections
\* tested, poll loops running.
PollInit == NoPortal /\ NoDetect /\ InitSync /\ NoParse /\ NoCamera /\ NoApp

PollNext ==
  \/ \E thingId \in BOOLEAN : SaveConfiguration(thingId)
  \/ TestConnection
  \/ \E pending \in pendingTests, success \in BOOLEAN, statusOk \in BOOLEAN :
       TestConnectionResolves(pending, success, statusOk)
  \/ \E k \in 1..MaxTests : Poll(k)

SpecPoll == PollInit /\ [][PollNext]_vars

\* ======================================================== custody ledger
\* previous_hash of a log entry, None if the entry has no such key
previousHashOf(entry) ==
  IF "previous_hash" \in DOMAIN entry THEN Some(entry.previous_hash) ELSE None

\* Every event after the first carries the stored hash of the event before
\* it, the first carries none.
HashLinked(chain) ==
  \A i \in 1..Len(chain) :
    previousHashOf(chain[i]) = IF i = 1 THEN None ELSE Some(chain[i - 1].hash)

\* The scans the agent handled for the shipment of one printed code, oldest
\* first
scansOf(qr) == SelectSeq(scanHistory, LAMBDA e : e.rawData.qr = qr)

recomputeHash(event) ==
  generateHash([eventType |-> event.event_type, location |-> event.gps_coordinates,
                timestamp |-> event.timestamp, agentId |-> agentInfo.id,
                additionalData |-> previousHashOf(event)])

verify(chain) ==
  \A i \in 1..Len(chain) :
    /\ chain[i].hash = recomputeHash(chain[i])
    /\ previousHashOf(chain[i]) =
         IF i = 1 THEN None ELSE Some(recomputeHash(chain[i - 1]))

\* The chain with the timestamp of event i changed
tamperTimestamp(chain, i) ==
  [chain EXCEPT ![i] = [@ EXCEPT !.timestamp = @ + 1]]

\* C2: verify is true of every chain the program built and false of the chain
\* with the timestamp of any one event changed.
C2_VerifyDetectsTimestampChange ==
  component = "agent" =>
    \A i \in 1..Len(transactions) :
      LET chain == transactions[i].tamper_proof_log
      IN /\ verify(chain)
         /\ \A k \in 1..Len(chain) : ~verify(tamperTimestamp(chain, k))

\* The transaction with the given id, as the portal holds it
transactionById(id) ==
  transactions[CHOOSE i \in 1..Len(transactions) : transactions[i].id = id]

\* C3: a pickup scan creates a transaction with status picked_up, and a later
\* delivery scan of the same shipment moves that same transaction to
\* delivered, or to diverted if the scan is a diversion, appending its event to
\* the transaction's chain: no second transaction is created.
C3_DeliveryUpdatesTransaction ==
  component = "agent" =>
    \A i \in 1..Len(scanHistory) :
      LET pickup == scanHistory[i]
          deliveries == {j \in (i + 1)..Len(scanHistory) :
                           /\ scanHistory[j].rawData.qr = pickup.rawData.qr
                           /\ scanHistory[j].action = "delivery"}
      IN pickup.action = "pickup" =>
           IF deliveries = {}
           THEN transactionById(pickup.transaction_id).status = "picked_up"
           ELSE \A j \in deliveries :
                  /\ scanHistory[j].transaction_id = pickup.transaction_id
                  /\ transactionById(pickup.transaction_id).status
                       \in {"delivered", "diverted"}
                  /\ Len(transactionById(pickup.transaction_id).tamper_proof_log) >= 2

\* ==================================================== diversion detection
\* The district a transaction records for the scan's GPS point
scanDistrictOf(t) ==
  IF "current_district" \in DOMAIN t THEN t.current_district ELSE t.scanned_district

\* No district of the registry contains the point.
InNoDistrict(gps) ==
  \A i \in 1..Len(bangladeshDistricts) :
    calculateDistance(gps.latitude, gps.longitude, bangladeshDistricts[i].lat,
                      bangladeshDistricts[i].lng)
      > bangladeshDistricts[i].radius * 1000

\* The payload names no assigned district.
NoAssignedDistrict(rawData) ==
  \/ rawData.json = None
  \/ {"assigned_district", "destination_district"} \cap ObjectKeys(rawData.json[1]) = {}

alertsFor(t) ==
  {k \in 1..Len(alerts) :
     Get(alerts[k], "transaction_id") = t.id /\ alerts[k].type = "diversion"}

scanLocationOf(t) ==
  IF "gps_coordinates" \in DOMAIN t THEN t.gps_coordinates
  ELSE IF "delivery_location" \in DOMAIN t THEN t.delivery_location
  ELSE t.pickup_location

\* C6: whenever a scan is a diversion the distance reported with it is the
\* great-circle distance from the scan's GPS point to the centre of the
\* assigned district and is greater than 0, whatever district name the payload
\* assigns.
C6_DiversionDistancePositive ==
  \A i \in 1..Len(transactions) :
    LET t == transactions[i]
    IN t.alert_triggered =>
         /\ t.diversion_distance > 0
         /\ \A k \in 1..Len(bangladeshDistricts) :
              bangladeshDistricts[k].name = t.assigned_district =>
                t.diversion_distance =
                  calculateDistance(scanLocationOf(t).latitude,
                                    scanLocationOf(t).longitude,
                                    bangladeshDistricts[k].lat,
                                    bangladeshDistricts[k].lng)

\* ===================================================== district resolution
\* The districts of the registry that contain the point
Containing == {i \in DOMAIN registry : pointDistances[i] <= registry[i].radius * 1000}

\* C7: detectDistrict returns "Unknown" exactly when no district contains the
\* point; otherwise it returns a containing district such that no containing
\* district is strictly closer and none equally close comes earlier in the
\* registry. The result is that of the current point and registry alone,
\* whatever was resolved before.
C7_ClosestContainingDistrict ==
  detected /= None =>
    /\ detected[1] = "Unknown" <=> Containing = {}
    /\ Containing /= {} =>
         \E i \in Containing :
           /\ detected[1] = registry[i].name
           /\ \A j \in Containing :
                /\ pointDistances[j] >= pointDistances[i]
                /\ pointDistances[j] = pointDistances[i] => i <= j

\* C7 happens: two containing districts are equally close, a third is
\* farther, and the first of the two was returned.
C7_Witness ==
  /\ detected /= None
  /\ \E i, j \in Containing :
       /\ i < j
       /\ pointDistances[i] = pointDistances[j]
       /\ \A k \in Containing : pointDistances[k] >= pointDistances[i]
       /\ detected[1] = registry[i].name
  /\ \E k \in DOMAIN registry : k \notin Containing

\* ============================================================= batch sync
\* ceil(n / batchSize)
BatchCount(n) == (n + batchSize - 1) \div batchSize

\* The b-th of the consecutive batches of n records
ExpectedBatch(b, n) ==
  <<batchSize * (b - 1) + 1, IF batchSize * b <= n THEN batchSize * b ELSE n>>

\* batchSync processes the consecutive batches in order, waits once between
\* two batches and never otherwise, and calls syncQRCodeData once per record.
BatchesAndDelays ==
  LET n == Len(qrCodes)
  IN /\ Len(batches) <= BatchCount(n)
     /\ \A b \in 1..Len(batches) : batches[b] = ExpectedBatch(b, n)
     /\ delays = IF batches = <<>> THEN 0 ELSE Len(batches) - 1
     /\ pc = "returned" =>
          /\ Len(batches) = BatchCount(n)
          /\ delays = IF n = 0 THEN 0 ELSE BatchCount(n) - 1
          /\ \A k \in 1..n : syncCalls[k] = 1
     /\ (pc = "returned" /\ n = 25) =>
          /\ batches = <<<<1, 10>>, <<11, 20>>, <<21, 25>>>>
          /\ delays = 2

\* C8 as stated: batchSync processes exactly ceil(n/10) consecutive batches
\* that partition the input in order, waits the delay exactly ceil(n/10)-1
\* times, and has sent the sync request of every input record exactly once
\* when it returns.
C8_EveryRecordPublishedOnce ==
  /\ BatchesAndDelays
  /\ pc = "returned" => \A k \in 1..Len(qrCodes) : publishes[k] = 1

\* C8: batchSync processes exactly ceil(n/10) consecutive batches that
\* partition the input in order (10 records each except possibly the last),
\* waits the delay exactly ceil(n/10)-1 times (never after the last batch,
\* never for n = 0), and makes one sync attempt per record, which sends the
\* record's sync request exactly once unless the record's authentication
\* failed and never then; for n = 25 the batches are 10, 10, 5 with 2 delays.
C8_BatchesDelaysOneAttempt ==
  /\ BatchesAndDelays
  /\ \A k \in 1..Len(qrCodes) : publishes[k] <= 1
  /\ pc = "returned" =>
       \A k \in 1..Len(qrCodes) :
         publishes[k] = IF settledBy[k] = "auth_throws" THEN 0 ELSE 1

\* C8 happens: batchSync returned for 25 records after 3 batches and 2
\* delays, one record's authentication having failed.
C8_Witness ==
  /\ pc = "returned"
  /\ Len(qrCodes) = MaxRecords
  /\ Len(batches) = 3
  /\ delays = 2
  /\ \E k \in 1..Len(qrCodes) : settledBy[k] = "auth_throws" /\ publishes[k] = 0
  /\ \E k \in 1..Len(qrCodes) : settledBy[k] = "success" /\ publishes[k] = 1

\* The records of the batch being processed
CurrentBatch == slice(loopIndex, Len(qrCodes))[1]..slice(loopIndex, Len(qrCodes))[2]

\* C9: every request in flight for a record belongs to the batch being
\* processed, so at most 10 are in flight; no record of a later batch has been
\* started; every record of an earlier batch is settled; and every batch
\* after the first was started after an inter-batch delay.
C9_BatchesDoNotOverlap ==
  /\ \A r \in inFlight : r.record \in CurrentBatch /\ pc = "batch"
  /\ Cardinality(inFlight) <= batchSize
  /\ \A k \in 1..Len(qrCodes) :
       /\ k > loopIndex + batchSize =>
            callbacks[k] = "unstarted" /\ publishes[k] = 0 /\ syncCalls[k] = 0
       /\ (k <= loopIndex /\ pc /= "idle") => callbacks[k] \in {"fulfilled", "rejected"}
  /\ batches /= <<>> => delays = Len(batches) - 1
  /\ pc = "delay" => \A k \in 1..(loopIndex + batchSize) :
                       callbacks[k] \in {"fulfilled", "rejected"}

\* C9 happens: the second batch is being processed with 10 requests in
\* flight, the first batch settled and a third batch not started.
C9_Witness ==
  /\ pc = "batch"
  /\ loopIndex = batchSize
  /\ Cardinality(inFlight) = batchSize
  /\ delays = 1
  /\ Len(qrCodes) > 2 * batchSize

\* The ids of the input records
InputIds == {qrCodes[k] : k \in 1..Len(qrCodes)}

DistinctIds == Cardinality(InputIds) = Len(qrCodes)

\* C10: when batchSync returns, the result map has exactly one outcome for
\* every input record id (n outcomes for n distinct ids); a record is not
\* synced only through a failing response of its own, so at most as many
\* records are not synced as responses failed, and every record without a
\* failure of its own was sent and is synced, in its batch and in later ones;
\* batchSync never rejects.
C10_OneOutcomePerRecord ==
  /\ pc /= "rejected"
  /\ pc = "returned" =>
       /\ DOMAIN results = InputIds
       /\ \A id \in InputIds : results[id] \in {"synced", "failed", "partial"}
       /\ DistinctIds =>
            /\ Cardinality(DOMAIN results) = Len(qrCodes)
            /\ Cardinality({k \in 1..Len(qrCodes) : results[qrCodes[k]] /= "synced"})
                 <= faults
            /\ \A k \in 1..Len(qrCodes) :
                 /\ settledBy[k] = "success" <=> results[qrCodes[k]] = "synced"
                 /\ settledBy[k] = "success" => publishes[k] = 1
                 /\ settledBy[k] \in {"auth_throws", "network_error", "server_error"}
                      => results[qrCodes[k]] = "failed"

\* C10 happens: batchSync returned 25 outcomes, one record of the first batch
\* failed and the records after it, in its batch and in later batches, are
\* synced.
C10_Witness ==
  /\ pc = "returned"
  /\ Len(qrCodes) = MaxRecords
  /\ Cardinality(DOMAIN results) = MaxRecords
  /\ \E k \in 1..(batchSize - 1) :
       /\ results[qrCodes[k]] = "failed"
       /\ \A j \in (k + 1)..Len(qrCodes) : results[qrCodes[j]] = "synced"

\* ------------------------------------------------------------------- C11
\* The records whose sync fetch is sent by the step.
PublishedInStep ==
  {k \in 1..Len(qrCodes') :
     publishes'[k] > (IF qrCodes' = qrCodes /\ k \in DOMAIN publishes
                      THEN publishes[k] ELSE 0)}

\* The records whose syncQRCodeData call begins in the step.
BegunInStep ==
  {k \in 1..Len(qrCodes') :
     syncCalls'[k] > (IF qrCodes' = qrCodes /\ k \in DOMAIN syncCalls
                      THEN syncCalls[k] ELSE 0)}

\* The records whose authentication fails in the step.
AuthFailedInStep ==
  {k \in 1..Len(qrCodes) :
     settledBy'[k] = "auth_throws" /\ settledBy[k] /= "auth_throws"}

\* C11: no publish is sent with an absent or expired token. Every step that
\* sends a record's sync fetch leaves a stored token whose expiry lies in the
\* future; a record whose sync begins while the token is absent or expired
\* sends the auth fetch and no sync fetch; and a record whose authentication
\* fails gets the outcome failed and has sent no sync fetch.
C11_NoPublishWithoutValidToken ==
  [][/\ PublishedInStep /= {} =>
          /\ accessToken' /= None
          /\ tokenExpiry' /= None
          /\ tokenExpiry'[1] > clock'
     /\ \A k \in BegunInStep :
          (accessToken = None \/ tokenExpiry = None \/ tokenExpiry[1] <= clock')
          => /\ [record |-> k, kind |-> "auth"] \in inFlight'
             /\ k \notin PublishedInStep
     /\ \A k \in AuthFailedInStep :
          /\ results'[qrCodes[k]] = "failed"
          /\ publishes'[k] = 0]_vars

\* A batch after the first found the token of the first batch expired,
\* authenticated again and published with the new token, while another
\* record's authentication failed and nothing was published for it.
C11_Witness ==
  /\ clock >= 1
  /\ tokenExpiry /= None
  /\ tokenExpiry[1] - clock \in ExpiresIn
  /\ publishes[1] = 1
  /\ \E k \in 1..Len(qrCodes) :
       k > batchSize /\ settledBy[k] = "success" /\ publishes[k] = 1
  /\ \E k \in 1..Len(qrCodes) :
       settledBy[k] = "auth_throws" /\ publishes[k] = 0

\* ------------------------------------------------------------------- C12
\* The steps that end a sync attempt in failure.
FailureSteps == {"auth_throws", "network_error", "server_error"}

\* C12: a record whose sync attempt fails is retried before its outcome is
\* recorded as failed: a record settled by a failure has had more than one
\* syncQRCodeData call or more than one sync fetch.
C12_FailedOnlyAfterRetry ==
  \A k \in 1..Len(qrCodes) :
    settledBy[k] \in FailureSteps =>
      (syncCalls[k] >= 2 \/ publishes[k] >= 2)

\* ------------------------------------------------------------------- C13
\* The tags of the closed set of the classification.
ClosedTags ==
  {"json", "multidimensional", "medicine_tracking", "url", "email", "phone",
   "sms", "wifi", "vcard", "event", "geo", "xml", "text"}

ValidationStatuses == {"valid", "invalid", "corrupted", "incomplete", "pending"}

RecordKeys ==
  {"raw_data", "parsed_data", "data_type", "dimensions", "validation_status",
   "scan_timestamp"}

\* parseQRCode has returned a record with a tag, a dimensionality and a
\* validation status, and the same string parsed before got the same tag.
WellFormedRecord ==
  /\ DOMAIN parsedRecord[1] = RecordKeys
  /\ parsedRecord[1].raw_data = scanned
  /\ IsObject(parsedRecord[1].parsed_data)
  /\ parsedRecord[1].dimensions \in Int
  /\ parsedRecord[1].validation_status \in ValidationStatuses
  /\ previousRecord /= None =>
       previousRecord[1].data_type = parsedRecord[1].data_type

RuleOrder ==
  <<"url", "email", "phone", "sms", "wifi", "vcard", "event", "geo", "xml", "text">>

\* The tags whose rule matches the text; generic text matches every string.
MatchingTags(text) ==
  {tag \in {"url"} : matchesUrl(text)}
    \cup {tag \in {"email"} : matchesMailto(text) \/ matchesBareEmail(text)}
    \cup {tag \in {"phone"} : matchesTel(text) \/ matchesPhoneDigits(text)}
    \cup {tag \in {"sms"} : matchesSms(text)}
    \cup {tag \in {"wifi"} : matchesWifi(text)}
    \cup {tag \in {"vcard"} : matchesVCard(text)}
    \cup {tag \in {"event"} : matchesVEvent(text)}
    \cup {tag \in {"geo"} : matchesGeo(text)}
    \cup {tag \in {"xml"} : matchesXml(text)}
    \cup {"text"}

\* The tag of the first rule of RuleOrder that matches the text.
FirstMatchingTag(text) ==
  RuleOrder[CHOOSE i \in 1..Len(RuleOrder) :
              /\ RuleOrder[i] \in MatchingTags(text)
              /\ \A j \in 1..(i - 1) : RuleOrder[j] \notin MatchingTags(text)]

StructuredTags == {"json", "multidimensional", "medicine_tracking"}

\* The decoded value carries a layers list.
CarriesLayersList(value) == TypeOf(Prop(value, "layers")) = "array"

\* The tag of a decoded value, given whether it carries the discriminator.
StructuredTag(value, discriminates) ==
  IF discriminates THEN "medicine_tracking"
  ELSE IF CarriesLayersList(value) THEN "multidimensional"
  ELSE "json"

\* The record of a call whose extraction did not throw.
Classified == parsedRecord /= None /\ parsedRecord[1].data_type /= "custom"

\* C14 as stated: the tag is the tag of the first matching rule; a structured
\* tag is given only when the decoded value is a mapping: tracking if its type
\* entry is the discriminator, else layered if it carries a layers list, else
\* structured json; a string that decodes to no mapping gets the tag of the
\* first pattern that matches.
C14_StructuredOnlyForMappings ==
  Classified =>
    /\ parsedRecord[1].data_type \in StructuredTags =>
         scanned.json /= None /\ TypeOf(scanned.json[1]) = "object"
    /\ (scanned.json /= None /\ TypeOf(scanned.json[1]) = "object") =>
         parsedRecord[1].data_type =
           StructuredTag(scanned.json[1],
                         Prop(scanned.json[1], "type") = JStr("medicine_tracking"))
    /\ scanned.json = None =>
         parsedRecord[1].data_type = FirstMatchingTag(scanned.text)

\* C14, amended: the tag is the tag of the first matching rule; a structured
\* tag is given when the decoded value is a mapping or a list: tracking if its
\* type entry is the discriminator and its data entry is truthy, else layered
\* if it carries a layers list, else structured json; every other string gets
\* the tag of the first pattern that matches, generic text if none does.
C14_FirstMatchingRule ==
  Classified =>
    IF scanned.json /= None /\ TypeOf(scanned.json[1]) \in {"object", "array"}
    THEN parsedRecord[1].data_type =
           StructuredTag(scanned.json[1],
                         /\ Prop(scanned.json[1], "type") = JStr("medicine_tracking")
                         /\ Truthy(Prop(scanned.json[1], "data")))
    ELSE parsedRecord[1].data_type = FirstMatchingTag(scanned.text)

\* A decoded mapping that carries the discriminator, tracking data and a
\* layers list was tagged tracking, the first of the two rules.
C14_Witness ==
  /\ Classified
  /\ scanned.json /= None
  /\ Prop(scanned.json[1], "type") = JStr("medicine_tracking")
  /\ Truthy(Prop(scanned.json[1], "data"))
  /\ CarriesLayersList(scanned.json[1])
  /\ parsedRecord[1].data_type = "medicine_tracking"

\* ------------------------------------------------------------------- C15
\* C15: every record returned by parseQRCode has dimensionality of at least
\* 1, for every raw string, layered payloads with an empty layers list
\* included.
C15_DimensionsAtLeastOne ==
  parsedRecord /= None => parsedRecord[1].dimensions >= 1

\* ------------------------------------------------------------------- C16
\* The extraction of the scanned string failed: it threw (the record of the
\* catch block), or the method of the tag took its failure branch: new URL
\* threw, the WiFi or geo pattern did not match, or a layer could not be
\* mapped. The other methods have no failure branch.
ExtractionFailed ==
  LET tag == parsedRecord[1].data_type
  IN CASE tag = "custom" -> TRUE
       [] tag = "url" -> ~newURL(scanned.text).ok
       [] tag = "wifi" -> wifiMatches(scanned.text) = {}
       [] tag = "geo" -> Prop(parseGeo(scanned.text), "latitude") = Undefined
       [] tag = "multidimensional" ->
            \E i \in 1..Len(ValueOf(Prop(scanned.json[1], "layers"))) :
              ValueOf(Prop(scanned.json[1], "layers"))[i] = JNull
       [] OTHER -> FALSE

\* C16: the validation status of the returned record is corrupted if and
\* only if the extraction of the payload failed; a payload whose extraction
\* succeeded is never reported as corrupted, whatever keys it carries.
C16_CorruptedIffExtractionFailed ==
  parsedRecord /= None =>
    (parsedRecord[1].validation_status = "corrupted" <=> ExtractionFailed)

\* ------------------------------------------------------------------- C17
\* The status of the rule table below the error rule, for a field mapping
\* and a tag: an entry is present if its value is truthy.
TableStatus(data, tag) ==
  CASE tag = "url" ->
         IF Truthy(Prop(data, "hostname")) THEN "valid" ELSE "invalid"
    [] tag = "email" ->
         IF Truthy(Prop(data, "email")) THEN "valid" ELSE "invalid"
    [] tag = "multidimensional" ->
         IF Len(ValueOf(Prop(data, "layers"))) > 0 THEN "valid" ELSE "incomplete"
    [] tag = "medicine_tracking" ->
         IF \A key \in {"medicine_id", "medicine_name", "batch_number"} :
              Truthy(Prop(data, key))
         THEN "valid" ELSE "incomplete"
    [] OTHER -> "valid"

\* The field mapping contains an error key.
HasErrorKey(data) == TypeOf(data) = "object" /\ "error" \in DOMAIN ValueOf(data)

\* C17 as stated: the status of the returned record is corrupted whenever the
\* field mapping contains an error key, whatever the value of the key and
\* whatever the tag; otherwise it is the status of the rule table.
C17_CorruptedOnErrorKey ==
  parsedRecord /= None =>
    parsedRecord[1].validation_status =
      IF HasErrorKey(parsedRecord[1].parsed_data) THEN "corrupted"
      ELSE TableStatus(parsedRecord[1].parsed_data, parsedRecord[1].data_type)

\* C17, amended: the status of the returned record is corrupted whenever the
\* error entry of the field mapping is truthy, whatever the tag; otherwise,
\* an absent, empty or null error entry included, it is the status of the rule
\* table.
C17_CorruptedOnTruthyError ==
  parsedRecord /= None =>
    parsedRecord[1].validation_status =
      IF Truthy(Prop(parsedRecord[1].parsed_data, "error")) THEN "corrupted"
      ELSE TableStatus(parsedRecord[1].parsed_data, parsedRecord[1].data_type)

\* A structured-json mapping whose error entry is empty or null was returned
\* with the status of the table, valid.
C17_Witness ==
  /\ parsedRecord /= None
  /\ parsedRecord[1].data_type = "json"
  /\ HasErrorKey(parsedRecord[1].parsed_data)
  /\ ~Truthy(Prop(parsedRecord[1].parsed_data, "error"))
  /\ parsedRecord[1].validation_status = "valid"

\* ------------------------------------------------------------------- C18
\* The location sample k of the background loop was taken while a stored
\* transaction was in the agent's custody.
SampledInCustody(k) ==
  /\ component = "agent"
  /\ k <= Len(trackingLog)
  /\ \E i \in 1..Len(storage) :
       /\ storage[i].status = "picked_up"
       /\ storage[i].pickup_timestamp < trackingLog[k].timestamp

\* The event of sample k is stored in the chain of a stored transaction.
SampleStored(k) ==
  /\ k <= Len(trackingLog)
  /\ \E i \in 1..Len(storage) :
       \E j \in 1..Len(storage[i].tamper_proof_log) :
         storage[i].tamper_proof_log[j].id = trackingLog[k].id

C19_SampleEventuallyAppended ==
  \A k \in 1..MaxTracking : SampledInCustody(k) ~> SampleStored(k)

\* ------------------------------------------------------------------- C20
\* The camera of a QRScanner object is released: no track of its stream is
\* open and no frame is requested that continues its loop.
Released(scanner) ==
  /\ ~scanner.live
  /\ ~(scanner.frame /\ scanner.scanning)

\* C20: stopping a scan releases the camera on every exit path: after the
\* session of a QRScanner object has ended, by detection and processing, by an
\* error of the camera or of the processing, or by stop, and after the portal
\* is unmounted, the camera of the object is released.
C20_CameraReleasedOnEveryExit ==
  \A i \in 1..Len(scannerObjects) :
    (scannerObjects[i].ended /= "no" \/ ~mounted) => Released(scannerObjects[i])

\* ---------------------------------------------------------------------------
\* C21: once the agent view is unmounted its background tracking loop is
\* stopped: no step taken after the unmount takes a location sample or creates
\* a tamper-proof log entry.
C21_NoSampleAfterUnmount == [][~mounted => trackingLog' = trackingLog]_vars

\* ---------------------------------------------------------------------------
\* C22: a failed geolocation request (permission denied, position unavailable
\* or timeout) is not fatal: with no coordinates the scan button of a scan tab
\* still starts a scan.
C22_ScanStartsWithoutCoordinates ==
  (/\ ~geoPending
   /\ currentLocation = None
   /\ activeTab \in ScanTabs(component)
   /\ ~isScanning)
    => ENABLED StartScanning

\* ---------------------------------------------------------------------------
\* C24: after any sequence of insert, delete and update-status operations the
\* list of the signed-in owner is exactly the records of that owner that were
\* inserted and not deleted, with their current status, the most recent first.
ownedBy(user, codes) ==
  IF user = None THEN <<>>
  ELSE SelectSeq(codes, LAMBDA code : code.user_id = user[1].id)

MostRecentFirst(codes) ==
  \A i, j \in DOMAIN codes :
    i < j => codes[i].scan_timestamp > codes[j].scan_timestamp

C24_ListIsOwnersKeptRecords ==
  /\ getUserQRCodes(userKey, qrCodesKey) = ownedBy(userKey, kept)
  /\ MostRecentFirst(getUserQRCodes(userKey, qrCodesKey))

C24_Witness ==
  /\ Len(getUserQRCodes(userKey, qrCodesKey)) = 2
  /\ Len(kept) >= 3
  /\ \E i \in DOMAIN qrCodesKey : qrCodesKey[i].arduino_sync_status = "synced"

\* ---------------------------------------------------------------------------
\* C25: an insert by one user leaves the records of every other user as they
\* were: every record inserted and not deleted, of whichever user, is still
\* stored afterwards.
C25_OtherUsersRecordsStay ==
  \A i \in DOMAIN kept : \E j \in DOMAIN qrCodesKey : qrCodesKey[j] = kept[i]

\* ---------------------------------------------------------------------------
\* C26: once stopScanning() has been called on a QRScanner object, by the stop
\* button, the object holds no open stream and is not scanning, also when the
\* call came while startScanning was awaiting the camera or the video.
C26_StoppedScannerStaysStopped ==
  \A i \in 1..Len(scannerObjects) :
    scannerObjects[i].ended = "stop" =>
      ~scannerObjects[i].live /\ ~scannerObjects[i].scanning

\* ---------------------------------------------------------------------------
\* C27: the delayed auto-stop set 2 s after a successful scan stops only the
\* session that produced the scan: when the timer of scanner i fires, the
\* session it ends (the one scannerRef holds) is that of scanner i.
C27_AutoStopEndsOwnSession ==
  [][\A i \in 1..MaxSessions : AutoStopFires(i) => viewScannerRef \in {0, i}]_vars

\* ---------------------------------------------------------------------------
\* C28: the status of the Scanner component is 'scanning' only while a session
\* is active, isScanning being true and a QRScanner held; the 3 s reset after
\* an error does not put it back to 'scanning' after a stop.
C28_ScanningStatusMeansActive ==
  scanStatus = "scanning" => viewIsScanning /\ viewScannerRef /= 0

\* ---------------------------------------------------------------------------
\* C29: at most one authenticate() call of an ArduinoCloudService is in flight
\* at any time: the record syncs of a batch that find no valid token do not
\* each send their own authentication request.
C29_OneAuthenticationInFlight ==
  Cardinality({request \in inFlight : request.kind = "auth"}) <= 1

\* ---------------------------------------------------------------------------
\* C30: however many testConnection runs succeeded, at most one status poll
\* loop is running, and it polls the service the component holds, not one that
\* was replaced.
C30_OnePollLoopOfCurrentService ==
  /\ Len(pollLoops) <= 1
  /\ \A k \in DOMAIN pollLoops : pollLoops[k].service = service
====
